---- MODULE Spec2Model ----
(***************************************************************************)
(* Model of ShellExecutor (src/Terminal/r36s_terminal.py): the history     *)
(* store, the PTY line filter, the command router, the monitor and PTY     *)
(* workers, the interrupt key, the output log, the environment probe and   *)
(* the user switch.                                                        *)
(*                                                                         *)
(* Text is modelled as a sequence of one-character strings, so that the    *)
(* string operations of the code (strip, startswith, isdigit, int, lower)  *)
(* are computed, not assumed.                                               *)
(***************************************************************************)
EXTENDS Integers, Sequences, FiniteSets, TLC

(***************************************************************************)
(* Bounds of the exploration.                                              *)
(***************************************************************************)
MaxCap == 2

(***************************************************************************)
(* Generic sequence helpers.                                               *)
(***************************************************************************)
Last(s) == s[Len(s)]

\* Python s[-n:] for n > 0
LastN(s, n) == IF Len(s) > n THEN SubSeq(s, Len(s) - n + 1, Len(s)) ELSE s

(***************************************************************************)
(* The history document as it sits on disk: the outcome of opening and     *)
(* json.load-ing the file.  Scalars carry their JSON type.                 *)
(***************************************************************************)
JInt(n) == [t |-> "int", n |-> n, s |-> <<>>]
JStr(s) == [t |-> "str", n |-> 0, s |-> s]
JNull == [t |-> "null", n |-> 0, s |-> <<>>]

JEntry(index, command) == [t |-> "dict", index |-> index, command |-> command]
JNotDict == [t |-> "other", index |-> JNull, command |-> JNull]

JList(items) == [t |-> "list", items |-> items]
JNoList == [t |-> "other", items |-> <<>>]
JAbsent == [t |-> "absent", items |-> <<>>]

Doc(kind, next_index, entries) ==
    [kind |-> kind, next_index |-> next_index, entries |-> entries]
DocMissing == Doc("missing", JNull, JAbsent)
DocUnreadable == Doc("unreadable", JNull, JAbsent)
DocBadJson == Doc("badjson", JNull, JAbsent)
DocTopList == Doc("list", JNull, JAbsent)
DocTopNumber == Doc("number", JNull, JAbsent)
DocTopString == Doc("string", JNull, JAbsent)

(***************************************************************************)
(* State of one ShellExecutor plus the parts of its surroundings it acts   *)
(* on: the history file, the child processes and the PTY byte stream.      *)
(***************************************************************************)
VARIABLES
    \* history store
    command_history,      \* sequence of [index, command]
    history_index,        \* sequential recall cursor
    history_next_index,   \* counter the next entry's index is taken from
    history_file,         \* TRUE iff a history file path is configured
    history_doc,          \* content of the history file on disk
    max_history,          \* config["max_history"]; 0 is falsy: no trimming
    assigned,             \* observer: every index an entry of this run has
                          \* carried, loaded or appended
    \* output log
    output_lines,
    \* command router (dispatch thread)
    pc,                   \* position inside execute_command
    command,              \* the resolved command execute_command is handling
    in_editor_mode,
    running,              \* main-loop flag cleared by quit
    uncaught,             \* an exception left an operation uncaught
    \* session state
    cwd,                  \* the directory the shell tracks
    active_user,
    process_cwd,          \* os.getcwd(): the directory of the process itself
    environ,              \* os.environ: name -> value, both texts
    active_env,           \* a text, or NoText
    active_env_type,      \* "conda" | "venv" | "none"
    active_env_source,    \* path of the activate script, or NoText
    probes_run,           \* observer: probe shells apply_shell_environment ran
    \* process supervisor
    foreground_process,   \* pid or None
    running_processes,    \* sequence of pids
    procs,                \* pid -> [status, returncode, stdout, stderr]
    monitors,             \* pid -> position of its monitor_process worker:
                          \* "none" | "reading" | "vacating"
    \* PTY session
    in_pty_mode,
    pty_process,
    pty_master,
    pty_thread,           \* the read_pty_output worker in its read loop:
                          \* "none" | "reading" | "dead"
    pty_cleanups,         \* workers that left the loop and have the rest
                          \* of cleanup_pty still to run
    pty_written,          \* texts written to the master descriptor
    pty_stream,           \* characters the child has yet to produce
    pty_fed,              \* characters read from the master so far
    current_line,         \* read_pty_output locals
    cursor_pos,
    escape_buffer,
    in_escape,
    pty_partial_line

histVars == <<command_history, history_index, history_next_index,
              history_file, history_doc, max_history, assigned>>
routerVars == <<pc, command, in_editor_mode, running, uncaught>>
sessionVars == <<cwd, active_user, process_cwd, environ, active_env,
                 active_env_type, active_env_source, probes_run>>
procVars == <<foreground_process, running_processes, procs, monitors>>
ptySessVars == <<in_pty_mode, pty_process, pty_master, pty_thread, pty_cleanups,
                pty_written>>
filterVars == <<pty_stream, pty_fed, current_line, cursor_pos, escape_buffer,
                in_escape, pty_partial_line>>
vars == <<histVars, output_lines, routerVars, sessionVars, procVars,
          ptySessVars, filterVars>>

None == 0

(***************************************************************************)
(* Text: sequences of one-character strings; the control characters are   *)
(* named.                                                                  *)
(***************************************************************************)
ESC == "ESC"
NL == "LF"
CR == "CR"
BS == "BS"
DEL == "DEL"
BEL == "BEL"
ETX == "ETX"
TAB == "TAB"
SP == " "
BACKSLASH == "BACKSLASH"
DQUOTE == "DQUOTE"

Digits == {"0", "1", "2", "3", "4", "5", "6", "7", "8", "9"}

DigitVal(c) == CASE c = "0" -> 0 [] c = "1" -> 1 [] c = "2" -> 2
                 [] c = "3" -> 3 [] c = "4" -> 4 [] c = "5" -> 5
                 [] c = "6" -> 6 [] c = "7" -> 7 [] c = "8" -> 8
                 [] c = "9" -> 9

\* str.isdigit(): non-empty and every character a digit
IsDigit(s) == Len(s) > 0 /\ \A i \in 1..Len(s) : s[i] \in Digits

\* int(s) for a string of digits
RECURSIVE ParseInt(_)
ParseInt(s) == IF Len(s) = 0 THEN 0
               ELSE 10 * ParseInt(SubSeq(s, 1, Len(s) - 1)) + DigitVal(s[Len(s)])

(***************************************************************************)
(* History store.                                                          *)
(***************************************************************************)
Entry(index, cmd) == [index |-> index, command |-> cmd]

H0 == [command_history |-> <<>>, history_index |-> -1, history_next_index |-> 1]

HNow == [command_history |-> command_history, history_index |-> history_index,
         history_next_index |-> history_next_index]

\* json.dump of {"next_index": ..., "entries": [...]}
EncodeHistory(h) ==
    Doc("dict", JInt(h.history_next_index),
        JList([i \in 1..Len(h.command_history) |->
                 JEntry(JInt(h.command_history[i].index),
                        JStr(h.command_history[i].command))]))

SaveOutcomes == {"ok", "open_failed", "write_failed"}

\* save_history: the document on disk afterwards
save_history(h, file, doc, outcome) ==
    IF ~file THEN doc
    ELSE IF outcome = "ok" THEN EncodeHistory(h)
    ELSE IF outcome = "write_failed" THEN DocBadJson
    ELSE doc

\* the isinstance filter of load_history over the entries list
RECURSIVE CleanEntries(_)
CleanEntries(items) ==
    IF Len(items) = 0 THEN <<>>
    ELSE LET e == items[1]
             rest == CleanEntries(Tail(items))
         IN IF e.t = "dict" /\ e.command.t = "str" /\ e.index.t = "int"
            THEN <<Entry(e.index.n, e.command.s)>> \o rest
            ELSE rest

\* variant: trimming keeps the oldest entries instead of the newest
Trim_keeping_oldest(entries, cap) ==
    IF cap # 0 /\ Len(entries) > cap THEN SubSeq(entries, 1, cap) ELSE entries

Trim(entries, cap) == IF cap # 0 /\ Len(entries) > cap THEN LastN(entries, cap)
                      ELSE entries

Indices(entries) == {entries[i].index : i \in 1..Len(entries)}

MaxOfSet(S) == CHOOSE m \in S : \A x \in S : x <= m

\* load_history: the history afterwards, and whether an exception escaped
load_history(h, file, doc, cap) ==
    IF ~file THEN [h |-> h, raised |-> FALSE]
    ELSE IF doc.kind = "missing" THEN [h |-> h, raised |-> FALSE]
    ELSE IF doc.kind \in {"unreadable", "badjson"} THEN [h |-> h, raised |-> FALSE]
    ELSE IF doc.kind # "dict" THEN [h |-> h, raised |-> TRUE]
    ELSE IF doc.entries.t \notin {"list", "absent"} THEN [h |-> h, raised |-> FALSE]
    ELSE LET cleaned == Trim(CleanEntries(doc.entries.items), cap)
             ni == doc.next_index
         IN [h |-> [command_history |-> cleaned,
                    history_index |-> Len(cleaned),
                    history_next_index |->
                        IF ni.t = "int" /\ ni.n > 0 THEN ni.n
                        ELSE IF Len(cleaned) > 0
                             THEN MaxOfSet(Indices(cleaned)) + 1
                             ELSE h.history_next_index],
             raised |-> FALSE]

\* variant: the counter is not advanced
add_history_entry_counter_kept(h, cmd, cap) ==
    LET appended == Append(h.command_history, Entry(h.history_next_index, cmd))
        kept == Trim(appended, cap)
    IN [command_history |-> kept,
        history_index |-> Len(kept),
        history_next_index |-> h.history_next_index]

\* variant: the recall cursor is left where it was
add_history_entry_cursor_kept(h, cmd, cap) ==
    LET appended == Append(h.command_history, Entry(h.history_next_index, cmd))
        kept == Trim(appended, cap)
    IN [command_history |-> kept,
        history_index |-> h.history_index,
        history_next_index |-> h.history_next_index + 1]

\* add_history_entry without its trailing save
add_history_entry(h, cmd, cap) ==
    LET appended == Append(h.command_history, Entry(h.history_next_index, cmd))
        kept == Trim(appended, cap)
    IN [command_history |-> kept,
        history_index |-> Len(kept),
        history_next_index |-> h.history_next_index + 1]

\* clear_history without its trailing save
clear_history(h) == H0

\* get_history_entry: the entries carrying the index, in stored order
get_history_entry(entries, index) ==
    SelectSeq(entries, LAMBDA e : e.index = index)

\* variant: the cursor also steps back from the oldest entry
get_history_prev_unguarded(h) ==
    IF Len(h.command_history) = 0 THEN h
    ELSE [h EXCEPT !.history_index =
              IF h.history_index >= 0 THEN h.history_index - 1 ELSE h.history_index]

get_history_prev(h) ==
    IF Len(h.command_history) = 0 THEN h
    ELSE [h EXCEPT !.history_index =
              IF h.history_index > 0 THEN h.history_index - 1 ELSE h.history_index]

\* entries[i]["command"] of a Python list: i counts from 0, a negative i
\* counts from the end, any other i raises IndexError
Subscript(entries, i) ==
    IF 0 <= i /\ i < Len(entries)
    THEN [raised |-> FALSE, value |-> entries[i + 1].command]
    ELSE IF i < 0 /\ -Len(entries) <= i
    THEN [raised |-> FALSE, value |-> entries[Len(entries) + i + 1].command]
    ELSE [raised |-> TRUE, value |-> <<>>]

\* what get_history_prev returns
get_history_prev_value(h) ==
    IF Len(h.command_history) = 0 THEN [raised |-> FALSE, value |-> <<>>]
    ELSE LET moved == get_history_prev(h)
         IN IF moved.history_index >= 0
            THEN Subscript(moved.command_history, moved.history_index)
            ELSE [raised |-> FALSE, value |-> <<>>]

\* what get_history_next returns
get_history_next_value(h) ==
    IF Len(h.command_history) = 0 THEN [raised |-> FALSE, value |-> <<>>]
    ELSE IF h.history_index < Len(h.command_history) - 1
    THEN Subscript(h.command_history, h.history_index + 1)
    ELSE [raised |-> FALSE, value |-> <<>>]

get_history_next(h) ==
    IF Len(h.command_history) = 0 THEN h
    ELSE [h EXCEPT !.history_index =
              IF h.history_index < Len(h.command_history) - 1
              THEN h.history_index + 1 ELSE Len(h.command_history)]

(***************************************************************************)
(* Output log.  A line is kept as the message template it was formatted    *)
(* from (tag) with the values put into it; "text" is a line of text that   *)
(* a process produced.                                                      *)
(***************************************************************************)
OutputCap == 500

Line(tag, n, text) == [tag |-> tag, n |-> n, text |-> text]
Msg(tag) == Line(tag, 0, <<>>)
Text(text) == Line("text", 0, text)

\* deque(maxlen=500).append for each line of a batch, oldest evicted
\* variant: a full log keeps what it has and drops what is appended
add_output_keeping_oldest(log, lines) ==
    SubSeq(log \o lines, 1, IF Len(log) + Len(lines) < OutputCap
                             THEN Len(log) + Len(lines) ELSE OutputCap)

add_output(log, lines) == LastN(log \o lines, OutputCap)

(***************************************************************************)
(* strip_ansi_codes.                                                        *)
(***************************************************************************)
UpperLetters == {"A", "B", "C", "D", "E", "F", "G", "H", "I", "J", "K", "L", "M",
                 "N", "O", "P", "Q", "R", "S", "T", "U", "V", "W", "X", "Y", "Z"}
LowerLetters == {"a", "b", "c", "d", "e", "f", "g", "h", "i", "j", "k", "l", "m",
                 "n", "o", "p", "q", "r", "s", "t", "u", "v", "w", "x", "y", "z"}
Letters == UpperLetters \cup LowerLetters

\* [@-Z\\-_]
EscTwoCharFinals == UpperLetters \cup {"@", BACKSLASH, "]", "^", "_"}
\* [0-?]
CsiParams == Digits \cup {":", ";", "<", "=", ">", "?"}
\* [ -/]
CsiIntermediates == {SP, "!", DQUOTE, "#", "$", "%", "&", "'", "(", ")", "*",
                     "+", ",", "-", ".", "/"}
\* [@-~]
CsiFinals == Letters \cup {"@", "[", BACKSLASH, "]", "^", "_", "BACKTICK", "{", "|", "}", "~"}

\* control characters below the space character, other than tab and newline
ControlChars == {ESC, CR, BS, BEL, "ETX", "EOT"}

\* first position >= i of text whose character is outside S
RECURSIVE SkipWhile(_, _, _)
SkipWhile(text, i, S) ==
    IF i <= Len(text) /\ text[i] \in S THEN SkipWhile(text, i + 1, S) ELSE i

\* end (exclusive) of a match of \x1B(?:[@-Z\\-_]|\[[0-?]*[ -/]*[@-~]) at i, or 0
AnsiMatchEnd(text, i) ==
    IF text[i] # ESC \/ i + 1 > Len(text) THEN 0
    ELSE IF text[i + 1] \in EscTwoCharFinals THEN i + 2
    ELSE IF text[i + 1] # "[" THEN 0
    ELSE LET j == SkipWhile(text, SkipWhile(text, i + 2, CsiParams), CsiIntermediates)
         IN IF j <= Len(text) /\ text[j] \in CsiFinals THEN j + 1 ELSE 0

\* end (exclusive) of a match of \x1B\][^\x07]*\x07 at i, or 0
OscMatchEnd(text, i) ==
    IF text[i] # ESC \/ i + 1 > Len(text) \/ text[i + 1] # "]" THEN 0
    ELSE LET j == SkipWhile(text, i + 2, {text[k] : k \in 1..Len(text)} \ {BEL})
         IN IF j <= Len(text) THEN j + 1 ELSE 0

\* end (exclusive) of a match of \x1B[P\]X^_][^\x1B\\]*(?:\x1B\\)? at i, or 0
StringSeqMatchEnd(text, i) ==
    IF text[i] # ESC \/ i + 1 > Len(text)
       \/ text[i + 1] \notin {"P", "]", "X", "^", "_"} THEN 0
    ELSE LET j == SkipWhile(text, i + 2,
                            {text[k] : k \in 1..Len(text)} \ {ESC, BACKSLASH})
         IN IF j + 1 <= Len(text) /\ text[j] = ESC /\ text[j + 1] = BACKSLASH
            THEN j + 2 ELSE j

\* re.sub(pattern, '', text) for a pattern given by its match-end operator
RECURSIVE SubAnsi(_, _)
SubAnsi(text, i) ==
    IF i > Len(text) THEN <<>>
    ELSE LET e == AnsiMatchEnd(text, i)
         IN IF e # 0 THEN SubAnsi(text, e) ELSE <<text[i]>> \o SubAnsi(text, i + 1)

RECURSIVE SubOsc(_, _)
SubOsc(text, i) ==
    IF i > Len(text) THEN <<>>
    ELSE LET e == OscMatchEnd(text, i)
         IN IF e # 0 THEN SubOsc(text, e) ELSE <<text[i]>> \o SubOsc(text, i + 1)

RECURSIVE SubStringSeq(_, _)
SubStringSeq(text, i) ==
    IF i > Len(text) THEN <<>>
    ELSE LET e == StringSeqMatchEnd(text, i)
         IN IF e # 0 THEN SubStringSeq(text, e)
            ELSE <<text[i]>> \o SubStringSeq(text, i + 1)

strip_ansi_codes(text) ==
    LET t1 == SubAnsi(text, 1)
        t2 == SubOsc(t1, 1)
        t3 == SubStringSeq(t2, 1)
    IN SelectSeq(t3, LAMBDA c : c \notin ControlChars)

\* not text.strip()
IsBlank(text) == \A i \in 1..Len(text) : text[i] \in {SP, TAB, NL}

(***************************************************************************)
(* str.strip() and friends.                                                *)
(***************************************************************************)
Whitespace == {SP, TAB, NL, CR}

RECURSIVE LStrip(_)
LStrip(s) == IF Len(s) > 0 /\ s[1] \in Whitespace THEN LStrip(Tail(s)) ELSE s

RECURSIVE RStrip(_)
RStrip(s) == IF Len(s) > 0 /\ s[Len(s)] \in Whitespace
             THEN RStrip(SubSeq(s, 1, Len(s) - 1)) ELSE s

Strip(s) == LStrip(RStrip(s))

StartsWith(s, p) == Len(s) >= Len(p) /\ SubSeq(s, 1, Len(p)) = p
EndsWith(s, p) == Len(s) >= Len(p) /\ SubSeq(s, Len(s) - Len(p) + 1, Len(s)) = p

Min(a, b) == IF a < b THEN a ELSE b
Max(a, b) == IF a > b THEN a ELSE b

(***************************************************************************)
(* read_pty_output: the line filter.  A filter state F carries the locals  *)
(* of the worker, the lines it has committed, and whether an exception     *)
(* other than OSError has ended the worker.                                 *)
(***************************************************************************)
\* variant: the parameter of a cursor movement is ignored
EscapeAmount_ignored(params) == 1

\* int(params) if params else 1, ValueError giving 1
EscapeAmount(params) ==
    IF Len(params) = 0 THEN 1
    ELSE LET t == Strip(params)
             signed == Len(t) > 0 /\ t[1] \in {"+", "-"}
             body == IF signed THEN Tail(t) ELSE t
         IN IF IsDigit(body)
            THEN IF signed /\ t[1] = "-" THEN 0 - ParseInt(body) ELSE ParseInt(body)
            ELSE 1

\* variant: any character ends an escape sequence
EndsEscape_at_once(char) == TRUE

\* char.isalpha() or char in ("~", "m")
EndsEscape(char) == char \in Letters \cup {"~", "m"}

apply_escape_sequence(F, sequence) ==
    LET n == Len(F.current_line)
        final == sequence[Len(sequence)]
    IN IF sequence \in {<<ESC, "[", "D">>, <<ESC, "O", "D">>}
       THEN [F EXCEPT !.cursor_pos = Max(0, F.cursor_pos - 1)]
       ELSE IF sequence \in {<<ESC, "[", "C">>, <<ESC, "O", "C">>}
       THEN [F EXCEPT !.cursor_pos = Min(n, F.cursor_pos + 1)]
       ELSE IF StartsWith(sequence, <<ESC, "[">>) /\ final \in {"D", "C", "K"}
       THEN LET amount == EscapeAmount(SubSeq(sequence, 3, Len(sequence) - 1))
            IN IF final = "D"
               THEN [F EXCEPT !.cursor_pos = Max(0, F.cursor_pos - amount)]
               ELSE IF final = "C"
               THEN [F EXCEPT !.cursor_pos = Min(n, F.cursor_pos + amount)]
               ELSE \* current_line[:cursor_pos], a negative bound counting from the end
                    [F EXCEPT !.current_line =
                        IF F.cursor_pos >= 0
                        THEN SubSeq(F.current_line, 1, Min(n, F.cursor_pos))
                        ELSE SubSeq(F.current_line, 1, Max(0, n + F.cursor_pos))]
       ELSE F

\* variant: a blank line is logged like any other
commit_line_blank_too(F) ==
    [F EXCEPT !.out = Append(F.out, Text(strip_ansi_codes(F.current_line)))]

\* commit_line: the line added to the output log, if any
commit_line(F) ==
    LET clean_line == strip_ansi_codes(F.current_line)
    IN IF IsBlank(clean_line) THEN F
       ELSE [F EXCEPT !.out = Append(F.out, Text(clean_line))]

\* variant: a carriage return ends the line as a newline does
CarriageReturn_commits(F) ==
    [commit_line(F) EXCEPT !.current_line = <<>>, !.cursor_pos = 0]

\* the carriage-return case of the loop
CarriageReturn(F) == [F EXCEPT !.cursor_pos = 0]

\* variant: a character written inside the buffer is inserted, and what
\* was at the cursor and after it moves right
PutChar_inserting(F, char) ==
    LET n == Len(F.current_line)
        at == Max(0, Min(n, F.cursor_pos))
    IN [F EXCEPT !.current_line = SubSeq(F.current_line, 1, at) \o <<char>> \o
                                  SubSeq(F.current_line, at + 1, n),
                 !.cursor_pos = F.cursor_pos + 1]

\* the last case of the loop: any other character is written at the cursor
PutChar(F, char) ==
    LET n == Len(F.current_line)
    IN IF F.cursor_pos < n
       THEN IF F.cursor_pos >= 0 - n
            THEN \* list item assignment, a negative index counting from the end
                 [F EXCEPT !.current_line[IF F.cursor_pos >= 0
                                          THEN F.cursor_pos + 1
                                          ELSE n + F.cursor_pos + 1] = char,
                           !.cursor_pos = F.cursor_pos + 1]
            ELSE \* IndexError: not an OSError, so it ends the worker
                 [F EXCEPT !.died = TRUE]
       ELSE [F EXCEPT !.current_line = Append(F.current_line, char),
                      !.cursor_pos = F.cursor_pos + 1]

\* the body of "for char in text" for one character
FilterChar(F, char) ==
    IF F.died THEN F
    ELSE IF F.in_escape
    THEN LET buf == Append(F.escape_buffer, char)
         IN IF EndsEscape(char)
            THEN [apply_escape_sequence(F, buf) EXCEPT
                     !.escape_buffer = <<>>, !.in_escape = FALSE]
            ELSE [F EXCEPT !.escape_buffer = buf]
    ELSE IF char = ESC
    THEN [F EXCEPT !.in_escape = TRUE, !.escape_buffer = <<ESC>>]
    ELSE IF char = NL
    THEN [commit_line(F) EXCEPT !.current_line = <<>>, !.cursor_pos = 0]
    ELSE IF char = CR
    THEN CarriageReturn(F)
    ELSE IF char \in {BS, DEL}
    THEN [F EXCEPT !.cursor_pos = Max(0, F.cursor_pos - 1)]
    ELSE PutChar(F, char)

RECURSIVE FilterText(_, _)
FilterText(F, text) ==
    IF Len(text) = 0 THEN F ELSE FilterText(FilterChar(F, text[1]), Tail(text))

FNow == [current_line |-> current_line, cursor_pos |-> cursor_pos,
         escape_buffer |-> escape_buffer, in_escape |-> in_escape,
         out |-> <<>>, died |-> FALSE]

(***************************************************************************)
(* More text operations used by the command router.                        *)
(***************************************************************************)
LowerChar(c) ==
    CASE c = "A" -> "a"
      [] c = "B" -> "b"
      [] c = "C" -> "c"
      [] c = "D" -> "d"
      [] c = "E" -> "e"
      [] c = "F" -> "f"
      [] c = "G" -> "g"
      [] c = "H" -> "h"
      [] c = "I" -> "i"
      [] c = "J" -> "j"
      [] c = "K" -> "k"
      [] c = "L" -> "l"
      [] c = "M" -> "m"
      [] c = "N" -> "n"
      [] c = "O" -> "o"
      [] c = "P" -> "p"
      [] c = "Q" -> "q"
      [] c = "R" -> "r"
      [] c = "S" -> "s"
      [] c = "T" -> "t"
      [] c = "U" -> "u"
      [] c = "V" -> "v"
      [] c = "W" -> "w"
      [] c = "X" -> "x"
      [] c = "Y" -> "y"
      [] c = "Z" -> "z"
      [] OTHER -> c

\* str.lower()
Lower(s) == [i \in 1..Len(s) |-> LowerChar(s[i])]

\* str.split(): the maximal runs of non-whitespace characters
RECURSIVE SplitWords(_)
SplitWords(s) ==
    LET t == LStrip(s)
    IN IF Len(t) = 0 THEN <<>>
       ELSE LET e == SkipWhile(t, 1, {t[k] : k \in 1..Len(t)} \ Whitespace)
            IN <<SubSeq(t, 1, e - 1)>> \o SplitWords(SubSeq(t, e, Len(t)))

QuoteChars == {"'", DQUOTE}

\* the scan of shlex.split from position i on: cur is the word being
\* collected, started tells whether there is one (a pair of quotes starts
\* a word, possibly an empty one), q is the quote that is open, or ""
RECURSIVE ShlexScan(_, _, _, _, _)
ShlexScan(s, i, cur, started, q) ==
    IF i > Len(s)
    THEN [open |-> q # "", parts |-> IF started THEN <<cur>> ELSE <<>>]
    ELSE IF q # ""
    THEN IF s[i] = q THEN ShlexScan(s, i + 1, cur, TRUE, "")
         ELSE ShlexScan(s, i + 1, Append(cur, s[i]), TRUE, q)
    ELSE IF s[i] \in QuoteChars THEN ShlexScan(s, i + 1, cur, TRUE, s[i])
    ELSE IF s[i] \in Whitespace
    THEN LET rest == ShlexScan(s, i + 1, <<>>, FALSE, "")
         IN [open |-> rest.open,
             parts |-> (IF started THEN <<cur>> ELSE <<>>) \o rest.parts]
    ELSE ShlexScan(s, i + 1, Append(cur, s[i]), TRUE, "")

\* shlex.split for text without backslashes: an unbalanced quote is a
\* ValueError; quotes group and are removed
ShlexSplit(s) ==
    LET scan == ShlexScan(s, 1, <<>>, FALSE, "")
    IN IF scan.open THEN [ok |-> FALSE, parts |-> <<>>]
       ELSE [ok |-> TRUE, parts |-> scan.parts]

(***************************************************************************)
(* Construction (__init__) and whole-state helpers.                        *)
(***************************************************************************)
MaxProcs == 1
Pids == 1..MaxProcs

Home == "/home"
RealUser == <<"a", "r", "k">>

\* None in a field that otherwise holds a text; the code only tests such a
\* field for being empty or None
NoText == <<>>

\* the environment clear_inherited_env and ensure_base_paths leave: no
\* virtual environment, a search path
BaseEnviron == [name \in {<<"PATH">>} |-> <<"/bin">>]

\* a child: what it has left to write, the last SIGINT sent to it, and the
\* command line it was started with
NoProc == [status |-> "unborn", returncode |-> 0, stdout |-> <<>>, stderr |-> <<>>,
           sigint |-> "none", args |-> <<>>, script |-> <<>>]

WelcomeLines(dir) == <<Msg("shell_started"), Line("workdir", 0, <<dir>>),
                       Msg("help_hint"), Text(<<>>)>>

\* the state __init__ leaves, given the history file it finds
Constructed(cap, file, doc) ==
    LET loaded == load_history(H0, file, doc, cap)
    IN [command_history |-> loaded.h.command_history,
        history_index |-> loaded.h.history_index,
        history_next_index |-> loaded.h.history_next_index,
        history_file |-> file,
        history_doc |-> doc,
        max_history |-> cap,
        assigned |-> Indices(loaded.h.command_history),
        output_lines |-> IF loaded.raised THEN <<>> ELSE WelcomeLines(Home),
        pc |-> "idle",
        command |-> <<>>,
        in_editor_mode |-> FALSE,
        running |-> TRUE,
        uncaught |-> loaded.raised,
        cwd |-> Home,
        active_user |-> RealUser,
        process_cwd |-> Home,
        environ |-> BaseEnviron,
        active_env |-> NoText,
        active_env_type |-> "none",
        active_env_source |-> NoText,
        probes_run |-> 0,
        foreground_process |-> None,
        running_processes |-> <<>>,
        procs |-> [p \in Pids |-> NoProc],
        monitors |-> [p \in Pids |-> "none"],
        in_pty_mode |-> FALSE,
        pty_process |-> None,
        pty_master |-> None,
        pty_thread |-> "none",
        pty_cleanups |-> 0,
        pty_written |-> <<>>,
        pty_stream |-> <<>>,
        pty_fed |-> <<>>,
        current_line |-> <<>>,
        cursor_pos |-> 0,
        escape_buffer |-> <<>>,
        in_escape |-> FALSE,
        pty_partial_line |-> <<>>]

StateNow ==
    [command_history |-> command_history, history_index |-> history_index,
     history_next_index |-> history_next_index, history_file |-> history_file,
     history_doc |-> history_doc, max_history |-> max_history,
     assigned |-> assigned,
     output_lines |-> output_lines, pc |-> pc, command |-> command,
     in_editor_mode |-> in_editor_mode, running |-> running,
     uncaught |-> uncaught, cwd |-> cwd, active_user |-> active_user,
     process_cwd |-> process_cwd, environ |-> environ,
     active_env |-> active_env, active_env_type |-> active_env_type,
     active_env_source |-> active_env_source, probes_run |-> probes_run,
     foreground_process |-> foreground_process,
     running_processes |-> running_processes, procs |-> procs,
     monitors |-> monitors, in_pty_mode |-> in_pty_mode,
     pty_process |-> pty_process, pty_master |-> pty_master,
     pty_thread |-> pty_thread, pty_cleanups |-> pty_cleanups,
     pty_written |-> pty_written, pty_stream |-> pty_stream,
     pty_fed |-> pty_fed, current_line |-> current_line,
     cursor_pos |-> cursor_pos, escape_buffer |-> escape_buffer,
     in_escape |-> in_escape, pty_partial_line |-> pty_partial_line]

StartIn(st) ==
    /\ command_history = st.command_history
    /\ history_index = st.history_index
    /\ history_next_index = st.history_next_index
    /\ history_file = st.history_file
    /\ history_doc = st.history_doc
    /\ max_history = st.max_history
    /\ assigned = st.assigned
    /\ output_lines = st.output_lines
    /\ pc = st.pc
    /\ command = st.command
    /\ in_editor_mode = st.in_editor_mode
    /\ running = st.running
    /\ uncaught = st.uncaught
    /\ cwd = st.cwd
    /\ active_user = st.active_user
    /\ process_cwd = st.process_cwd
    /\ environ = st.environ
    /\ active_env = st.active_env
    /\ active_env_type = st.active_env_type
    /\ active_env_source = st.active_env_source
    /\ probes_run = st.probes_run
    /\ foreground_process = st.foreground_process
    /\ running_processes = st.running_processes
    /\ procs = st.procs
    /\ monitors = st.monitors
    /\ in_pty_mode = st.in_pty_mode
    /\ pty_process = st.pty_process
    /\ pty_master = st.pty_master
    /\ pty_thread = st.pty_thread
    /\ pty_cleanups = st.pty_cleanups
    /\ pty_written = st.pty_written
    /\ pty_stream = st.pty_stream
    /\ pty_fed = st.pty_fed
    /\ current_line = st.current_line
    /\ cursor_pos = st.cursor_pos
    /\ escape_buffer = st.escape_buffer
    /\ in_escape = st.in_escape
    /\ pty_partial_line = st.pty_partial_line

MoveTo(st) ==
    /\ command_history' = st.command_history
    /\ history_index' = st.history_index
    /\ history_next_index' = st.history_next_index
    /\ history_file' = st.history_file
    /\ history_doc' = st.history_doc
    /\ max_history' = st.max_history
    /\ assigned' = st.assigned
    /\ output_lines' = st.output_lines
    /\ pc' = st.pc
    /\ command' = st.command
    /\ in_editor_mode' = st.in_editor_mode
    /\ running' = st.running
    /\ uncaught' = st.uncaught
    /\ cwd' = st.cwd
    /\ active_user' = st.active_user
    /\ process_cwd' = st.process_cwd
    /\ environ' = st.environ
    /\ active_env' = st.active_env
    /\ active_env_type' = st.active_env_type
    /\ active_env_source' = st.active_env_source
    /\ probes_run' = st.probes_run
    /\ foreground_process' = st.foreground_process
    /\ running_processes' = st.running_processes
    /\ procs' = st.procs
    /\ monitors' = st.monitors
    /\ in_pty_mode' = st.in_pty_mode
    /\ pty_process' = st.pty_process
    /\ pty_master' = st.pty_master
    /\ pty_thread' = st.pty_thread
    /\ pty_cleanups' = st.pty_cleanups
    /\ pty_written' = st.pty_written
    /\ pty_stream' = st.pty_stream
    /\ pty_fed' = st.pty_fed
    /\ current_line' = st.current_line
    /\ cursor_pos' = st.cursor_pos
    /\ escape_buffer' = st.escape_buffer
    /\ in_escape' = st.in_escape
    /\ pty_partial_line' = st.pty_partial_line

\* a state with its history fields replaced by those of h and the file by doc
WithHistory(st, h, doc) ==
    [st EXCEPT !.command_history = h.command_history,
               !.history_index = h.history_index,
               !.history_next_index = h.history_next_index,
               !.history_doc = doc,
               !.assigned = st.assigned \cup Indices(h.command_history)]

(***************************************************************************)
(* History store operations, each with its trailing save.                  *)
(***************************************************************************)
StoreMaxIndex == 4
Caps == 0..MaxCap
StoreLines == {<<"l", "s">>, <<"s", "h">>}

AddHistoryEntry(cmd, outcome) ==
    /\ ~uncaught
    /\ history_next_index <= StoreMaxIndex
    /\ LET h == add_history_entry(HNow, cmd, max_history)
       IN MoveTo(WithHistory(StateNow, h,
                             save_history(h, history_file, history_doc, outcome)))

ClearHistory(outcome) ==
    /\ ~uncaught
    /\ LET h == clear_history(HNow)
       IN MoveTo(WithHistory(StateNow, h,
                             save_history(h, history_file, history_doc, outcome)))

GetHistoryPrev ==
    /\ ~uncaught /\ pc = "idle"
    /\ LET h == get_history_prev(HNow)
       IN /\ command_history' = h.command_history
          /\ history_index' = h.history_index
          /\ history_next_index' = h.history_next_index
    /\ UNCHANGED <<history_file, history_doc, max_history, assigned, output_lines,
                   routerVars, sessionVars, procVars, ptySessVars, filterVars>>

GetHistoryNext ==
    /\ ~uncaught /\ pc = "idle"
    /\ LET h == get_history_next(HNow)
       IN /\ command_history' = h.command_history
          /\ history_index' = h.history_index
          /\ history_next_index' = h.history_next_index
    /\ UNCHANGED <<history_file, history_doc, max_history, assigned, output_lines,
                   routerVars, sessionVars, procVars, ptySessVars, filterVars>>

\* the program is started again and loads what is on disk
Restart(cap) == MoveTo(Constructed(cap, history_file, history_doc))

StoreInit == \E cap \in Caps : StartIn(Constructed(cap, TRUE, DocMissing))

StoreNext ==
    \/ \E cmd \in StoreLines : AddHistoryEntry(cmd, "ok")
    \/ ClearHistory("ok")
    \/ GetHistoryPrev
    \/ GetHistoryNext
    \/ \E cap \in Caps : Restart(cap)

SpecStore == StoreInit /\ [][StoreNext]_vars

(***************************************************************************)
(* The history store against files that the program did not write itself.  *)
(***************************************************************************)
FileIndexValues == {JNull, JStr(<<"1">>), JInt(0), JInt(1)}
FileEntryValues == {JNotDict, JEntry(JInt(2), JStr(<<"l", "s">>)),
                    JEntry(JStr(<<"1">>), JStr(<<"l", "s">>)),
                    JEntry(JInt(1), JNull)}
MaxFileEntries == 1
FileEntryLists == UNION {[1..n -> FileEntryValues] : n \in 0..MaxFileEntries}
FileDocs ==
    {DocMissing, DocUnreadable, DocBadJson, DocTopList, DocTopNumber, DocTopString}
    \cup {Doc("dict", ni, JNoList) : ni \in FileIndexValues}
    \cup {Doc("dict", ni, JAbsent) : ni \in FileIndexValues}
    \cup {Doc("dict", ni, JList(items)) :
              ni \in FileIndexValues, items \in FileEntryLists}

\* something other than the program puts a document in place of the file
FileReplaced(doc) ==
    /\ history_doc # doc
    /\ MoveTo([StateNow EXCEPT !.history_doc = doc])

FileInit == \E cap \in Caps, file \in BOOLEAN :
                StartIn(Constructed(cap, file, DocMissing))

FileNext ==
    \/ \E outcome \in SaveOutcomes : AddHistoryEntry(<<"l", "s">>, outcome)
    \/ \E outcome \in SaveOutcomes : ClearHistory(outcome)
    \/ GetHistoryPrev
    \/ GetHistoryNext
    \/ \E cap \in Caps : Restart(cap)
    \/ \E doc \in FileDocs : FileReplaced(doc)

SpecFile == FileInit /\ [][FileNext]_vars

(***************************************************************************)
(* Command router: execute_command.                                        *)
(***************************************************************************)
W_help == <<"h", "e", "l", "p">>
W_clear == <<"c", "l", "e", "a", "r">>
W_history == <<"h", "i", "s", "t", "o", "r", "y">>
W_pwd == <<"p", "w", "d">>
W_jobs == <<"j", "o", "b", "s">>
W_cd == <<"c", "d", SP>>
W_quit == <<"q", "u", "i", "t">>
W_root == <<"r", "o", "o", "t">>
W_deactivate == <<"d", "e", "a", "c", "t", "i", "v", "a", "t", "e">>
W_user == <<"u", "s", "e", "r">>
W_venv == <<"v", "e", "n", "v", SP>>
W_conda == <<"c", "o", "n", "d", "a", SP>>
W_launch == <<"l", "a", "u", "n", "c", "h">>
W_edit == <<"e", "d", "i", "t">>
W_source == <<"s", "o", "u", "r", "c", "e", SP>>
W_dot == <<".", SP>>
W_export == <<"e", "x", "p", "o", "r", "t", SP>>

interactive_commands ==
    {<<"n", "a", "n", "o">>,
     <<"v", "i", "m">>,
     <<"v", "i">>,
     <<"e", "m", "a", "c", "s">>,
     <<"t", "o", "p">>,
     <<"h", "t", "o", "p">>,
     <<"l", "e", "s", "s">>,
     <<"m", "o", "r", "e">>,
     <<"m", "a", "n">>,
     <<"p", "y", "t", "h", "o", "n">>,
     <<"p", "y", "t", "h", "o", "n", "3">>,
     <<"i", "p", "y", "t", "h", "o", "n">>,
     <<"i", "p", "y", "t", "h", "o", "n", "3">>,
     <<"b", "a", "s", "h">>,
     <<"s", "h">>,
     <<"z", "s", "h">>,
     <<"f", "i", "s", "h">>,
     <<"s", "u", "d", "o">>,
     <<"s", "u">>,
     <<"d", "o", "a", "s">>}

\* first words that resolve_command_alias may rewrite
alias_names == {<<"p", "y">>, <<"p", "y", "t", "h", "o", "n">>, <<"i", "p", "y">>, <<"i", "p", "y", "t", "h", "o", "n">>}

\* first words examined by the login-shell detection
elevation_names == {<<"s", "u", "d", "o">>, <<"s", "u">>}

\* the branch of execute_command that a resolved command takes, in the
\* order the code tests them
Classify(cmd) ==
    LET stripped == Strip(cmd)
        cmd_lower == Lower(stripped)
        split == ShlexSplit(cmd)
        parts == split.parts
        words == SplitWords(stripped)
    IN IF cmd_lower = W_help THEN [kind |-> "help", n |-> 0]
       ELSE IF cmd_lower = W_clear THEN [kind |-> "clear", n |-> 0]
       ELSE IF StartsWith(cmd_lower, W_history)
       THEN IF ~split.ok THEN [kind |-> "history_error", n |-> 0]
            ELSE IF Len(parts) = 1 THEN [kind |-> "history_list", n |-> 0]
            ELSE IF parts[2] \in {<<"-", "c">>, W_clear}
            THEN [kind |-> "history_clear", n |-> 0]
            ELSE IF IsDigit(parts[2])
            THEN [kind |-> "history_show", n |-> ParseInt(parts[2])]
            ELSE [kind |-> "history_usage", n |-> 0]
       ELSE IF cmd_lower = W_pwd THEN [kind |-> "pwd", n |-> 0]
       ELSE IF cmd_lower = W_jobs THEN [kind |-> "jobs", n |-> 0]
       ELSE IF StartsWith(cmd_lower, W_cd) THEN [kind |-> "cd", n |-> 0]
       ELSE IF cmd_lower = W_quit THEN [kind |-> "quit", n |-> 0]
       ELSE IF cmd_lower = W_root THEN [kind |-> "root", n |-> 0]
       ELSE IF cmd_lower = W_deactivate THEN [kind |-> "deactivate", n |-> 0]
       ELSE IF StartsWith(cmd_lower, W_user) THEN [kind |-> "user", n |-> 0]
       ELSE IF StartsWith(cmd_lower, W_venv) THEN [kind |-> "venv", n |-> 0]
       ELSE IF StartsWith(cmd_lower, W_conda) THEN [kind |-> "conda", n |-> 0]
       ELSE IF StartsWith(cmd_lower, W_launch) THEN [kind |-> "launch", n |-> 0]
       ELSE IF StartsWith(cmd_lower, W_edit)
       THEN IF ~split.ok THEN [kind |-> "edit_error", n |-> 0]
            ELSE IF Len(parts) < 2 THEN [kind |-> "edit_usage", n |-> 0]
            ELSE [kind |-> "edit", n |-> 0]
       ELSE IF StartsWith(stripped, W_source) \/ StartsWith(stripped, W_dot)
       THEN [kind |-> "source", n |-> 0]
       ELSE IF StartsWith(stripped, W_export) THEN [kind |-> "export", n |-> 0]
       ELSE IF Len(words) > 0 /\ words[1] \in alias_names
       THEN [kind |-> "aliasable", n |-> 0]
       ELSE IF Len(words) > 0 /\ words[1] \in elevation_names
       THEN [kind |-> "elevation", n |-> 0]
       ELSE IF Len(words) > 0 /\ words[1] \in interactive_commands
       THEN [kind |-> "pty", n |-> 0]
       ELSE IF EndsWith(stripped, <<"&">>) THEN [kind |-> "background", n |-> 0]
       ELSE [kind |-> "foreground", n |-> 0]

\* resolve_history_reference: the entry referred to, if the command is !N
IsHistoryReference(cmd) ==
    LET stripped == Strip(cmd)
    IN StartsWith(stripped, <<"!">>) /\ IsDigit(Tail(stripped))

ReferencedIndex(cmd) == ParseInt(Tail(Strip(cmd)))

\* variant: a reference to a missing index is passed on as a command
resolve_history_reference_passing(entries, cmd) ==
    IF IsHistoryReference(cmd)
    THEN LET index == ReferencedIndex(cmd)
             found == get_history_entry(entries, index)
         IN IF Len(found) = 0
            THEN [resolved |-> TRUE, command |-> cmd, out |-> <<>>]
            ELSE [resolved |-> TRUE, command |-> found[1].command,
                  out |-> <<Line("history_recalled", index, found[1].command)>>]
    ELSE [resolved |-> TRUE, command |-> cmd, out |-> <<>>]

resolve_history_reference(entries, cmd) ==
    IF IsHistoryReference(cmd)
    THEN LET index == ReferencedIndex(cmd)
             found == get_history_entry(entries, index)
         IN IF Len(found) = 0
            THEN [resolved |-> FALSE, command |-> cmd,
                  out |-> <<Line("history_no_entry", index, <<>>)>>]
            ELSE [resolved |-> TRUE, command |-> found[1].command,
                  out |-> <<Line("history_recalled", index, found[1].command)>>]
    ELSE [resolved |-> TRUE, command |-> cmd, out |-> <<>>]

\* format_history_lines
format_history_lines(entries) ==
    IF Len(entries) = 0 THEN <<Msg("history_empty")>>
    ELSE [i \in 1..Len(entries) |->
            Line("history_entry", entries[i].index, entries[i].command)]

\* the branches whose effect is modelled; the virtual environment, launch,
\* alias and elevation branches are not
DispatchKinds == {"help", "clear", "history_error", "history_list",
                  "history_clear", "history_show", "history_usage", "pwd",
                  "jobs", "cd", "quit", "root", "user", "edit_error",
                  "edit_usage", "edit", "source", "export",
                  "pty", "background", "foreground"}

MaxLog == 8
MaxPtyWrites == 1

HelpLineCount == 30
HelpLines == [i \in 1..HelpLineCount |-> Line("help", i, <<>>)]

\* least pid not yet used, or None
FreshPid == IF \E p \in DOMAIN procs : procs[p].status = "unborn"
            THEN CHOOSE p \in DOMAIN procs :
                    /\ procs[p].status = "unborn"
                    /\ \A q \in DOMAIN procs : procs[q].status = "unborn" => p <= q
            ELSE None

\* what a foreground child writes: nothing on stdout, one line on stderr
StdoutChoices == {<<>>}
StderrChoices == {<<<<"e">>>>}
\* what a background child writes to the null device
BackgroundOutput == <<<<"b">>>>
PtyStreams == {<<"o", NL>>}

\* terminate(), wait(timeout) and, failing that, kill() of a child
Terminated(table, p) ==
    IF p # None /\ table[p].status = "running"
    THEN [table EXCEPT ![p].status = "exited", ![p].returncode = -15]
    ELSE table

\* the same when the child ignores SIGTERM: wait(timeout=2) expires, kill()
Killed(table, p) ==
    IF p # None /\ table[p].status = "running"
    THEN [table EXCEPT ![p].status = "exited", ![p].returncode = -9]
    ELSE table

\* send_to_pty(text): the write to the master descriptor
send_to_pty(written, text) ==
    IF in_pty_mode /\ pty_master # None THEN Append(written, text) ELSE written

\* variant: an open editor session does not stop a line
InputGate_editor_ignored(editor, pty) == IF pty THEN "pty" ELSE "parse"

\* variant: an open PTY session does not take the line
InputGate_pty_ignored(editor, pty) == IF editor THEN "editor" ELSE "parse"

\* what execute_command does with a non-blank line: the editor test comes
\* first, the PTY test second
InputGate(editor, pty) ==
    IF editor THEN "editor" ELSE IF pty THEN "pty" ELSE "parse"

\* execute_command up to and including the echo of the command
Submit(line) ==
    /\ pc = "idle" /\ ~uncaught /\ running
    /\ Len(output_lines) < MaxLog
    /\ IF Len(Strip(line)) = 0
       THEN UNCHANGED vars
       ELSE IF InputGate(in_editor_mode, in_pty_mode) = "editor"
       THEN /\ output_lines' = add_output(output_lines, <<Msg("finish_editor_first")>>)
            /\ UNCHANGED <<histVars, routerVars, sessionVars, procVars, ptySessVars,
                           filterVars>>
       ELSE IF InputGate(in_editor_mode, in_pty_mode) = "pty"
       THEN /\ Len(pty_written) < MaxPtyWrites
            /\ pty_written' = send_to_pty(pty_written, Append(line, NL))
            /\ UNCHANGED <<histVars, output_lines, routerVars, sessionVars, procVars,
                           in_pty_mode, pty_process, pty_master, pty_thread,
                           pty_cleanups, filterVars>>
       ELSE LET r == resolve_history_reference(command_history, line)
            IN IF ~r.resolved
               THEN /\ output_lines' = add_output(output_lines, r.out)
                    /\ UNCHANGED <<histVars, routerVars, sessionVars, procVars,
                                   ptySessVars, filterVars>>
               ELSE /\ pc' = "dispatch"
                    /\ command' = r.command
                    /\ LET h == add_history_entry(HNow, r.command, max_history)
                       IN /\ command_history' = h.command_history
                          /\ history_index' = h.history_index
                          /\ history_next_index' = h.history_next_index
                          /\ history_doc' = save_history(h, history_file, history_doc, "ok")
                          /\ assigned' = assigned \cup {history_next_index}
                    /\ output_lines' = add_output(output_lines,
                                           r.out \o <<Line("echo", 0, r.command)>>)
                    /\ Classify(r.command).kind \in DispatchKinds
                    /\ UNCHANGED <<history_file, max_history, in_editor_mode, running,
                                   uncaught, sessionVars, procVars, ptySessVars,
                                   filterVars>>

\* variant: the background child is started with the line as typed
BackgroundCommand_verbatim(cmd) == cmd

\* the command of a background launch: the trimmed line without its "&"
BackgroundCommand(cmd) == Strip(SubSeq(Strip(cmd), 1, Len(Strip(cmd)) - 1))

\* variant: a failed Popen of a command is not reported
SpawnErrorLines_silent == <<>>

\* except Exception as e: add_output("[Error] ...") around the two Popen calls
SpawnErrorLines == <<Msg("spawn_failed")>>

\* start_pty_command(cmd) after the lines `lead` have been logged and, when
\* `text` is not empty, followed by send_to_pty(text), as the export path does.
\* The master descriptor of a session is numbered after the session's child.
StartPty(ok, stream, cmd, lead, text) ==
    IF ok /\ FreshPid # None
    THEN /\ pty_master' = FreshPid
         /\ pty_process' = FreshPid
         /\ procs' = [procs EXCEPT ![FreshPid] =
                         [status |-> "running", returncode |-> 0,
                          stdout |-> <<>>, stderr |-> <<>>, sigint |-> "none",
                          args |-> cmd, script |-> <<>>]]
         /\ in_pty_mode' = TRUE
         /\ pty_partial_line' = <<>>
         /\ pty_thread' = "reading"
         /\ pty_stream' = stream
         /\ pty_fed' = <<>>
         /\ current_line' = <<>>
         /\ cursor_pos' = 0
         /\ escape_buffer' = <<>>
         /\ in_escape' = FALSE
         /\ output_lines' = add_output(output_lines,
                                lead \o <<Line("pty_started", 0, cmd), Msg("pty_hint")>>)
         /\ pty_written' = IF Len(text) > 0 THEN Append(pty_written, text)
                           ELSE pty_written
         /\ UNCHANGED pty_cleanups
    ELSE \* openpty or Popen raised: report, then cleanup_pty in full
         /\ in_pty_mode' = FALSE
         /\ pty_partial_line' = <<>>
         /\ procs' = Terminated(procs, pty_process)
         /\ pty_process' = None
         /\ pty_master' = None
         /\ output_lines' = add_output(output_lines,
                                lead \o <<Msg("pty_start_failed"),
                                          Msg("exited_interactive")>>)
         /\ UNCHANGED <<pty_thread, pty_cleanups, pty_written, pty_stream, pty_fed,
                        current_line, cursor_pos, escape_buffer, in_escape>>

\* start_pty_command as the interactive-command branch calls it
start_pty_command(ok, stream) == StartPty(ok, stream, command, <<>>, <<>>)

\* the shell the export path starts
W_bash == <<"b", "a", "s", "h", SP, "+", "m">>

\* variant: every tracked process is listed as running
PolledStatus_running(p) == "job_running"

\* proc.poll() is None
PolledStatus(p) == IF procs[p].status = "running" THEN "job_running" ELSE "job_finished"

\* jobs: one line per tracked process, with its polled status
JobsLines ==
    IF Len(running_processes) = 0 THEN <<Msg("jobs_none")>>
    ELSE <<Line("jobs_count", Len(running_processes), <<>>)>> \o
         [i \in 1..Len(running_processes) |->
            Line(PolledStatus(running_processes[i]), running_processes[i], <<>>)]

(***************************************************************************)
(* The environment probe.  What the probe shell writes is a sequence of    *)
(* items: NL, NUL, "=" and words that contain none of the three.           *)
(***************************************************************************)
NUL == "NUL"
Sentinel == "__PWD__"
MaxProbes == 2

\* bytes.find: the first position of item t in s, 0 when there is none
IndexOf(s, t) ==
    IF \E i \in 1..Len(s) : s[i] = t
    THEN CHOOSE i \in 1..Len(s) : s[i] = t /\ \A j \in 1..(i - 1) : s[j] # t
    ELSE 0

\* bytes.split(sep)
RECURSIVE SplitOn(_, _)
SplitOn(s, sep) ==
    LET i == IndexOf(s, sep)
    IN IF i = 0 THEN <<s>>
       ELSE <<SubSeq(s, 1, i - 1)>> \o SplitOn(SubSeq(s, i + 1, Len(s)), sep)

HasAssignment(item) == IndexOf(item, "=") > 0

\* the table built from the NUL-separated items after the first line: items
\* without "=" are skipped, a later item overrides an earlier one
ParseEnv(env_blob) ==
    LET items == SelectSeq(SplitOn(env_blob, NUL), HasAssignment)
        Key(item) == SubSeq(item, 1, IndexOf(item, "=") - 1)
        Value(item) == SubSeq(item, IndexOf(item, "=") + 1, Len(item))
        keys == {Key(items[i]) : i \in 1..Len(items)}
    IN [k \in keys |->
          Value(items[CHOOSE i \in 1..Len(items) :
                          /\ Key(items[i]) = k
                          /\ \A j \in (i + 1)..Len(items) : Key(items[j]) # k])]

\* os.environ.get(name), "" standing for an absent or empty value
EnvGet(env, name) == IF name \in DOMAIN env THEN env[name] ELSE <<>>

\* variant: variables missing from the parsed table are kept
ReplaceEnviron_merging(old, new_env) ==
    [k \in DOMAIN old \cup DOMAIN new_env |->
        IF k \in DOMAIN new_env THEN new_env[k] ELSE old[k]]

\* os.environ after the two loops: every key not in new_env is popped, every
\* item of new_env is set
ReplaceEnviron(old, new_env) ==
    [k \in (DOMAIN old \ {j \in DOMAIN old : j \notin DOMAIN new_env})
            \cup DOMAIN new_env |-> new_env[k]]

\* the environment-related fields of the shell
EnvNow == [cwd |-> cwd, process_cwd |-> process_cwd, environ |-> environ,
           active_env |-> active_env, active_env_type |-> active_env_type,
           active_env_source |-> active_env_source]

\* refresh_env_state on the fields e; a path is a sequence of components
refresh_env_state(e, activate_exists) ==
    LET conda_env == EnvGet(e.environ, <<"CONDA_DEFAULT_ENV">>)
        venv_path == EnvGet(e.environ, <<"VIRTUAL_ENV">>)
    IN IF Len(conda_env) > 0
       THEN [e EXCEPT !.active_env = conda_env, !.active_env_type = "conda"]
       ELSE IF Len(venv_path) > 0
       THEN [e EXCEPT !.active_env = <<Last(venv_path)>>,
                      !.active_env_type = "venv",
                      !.active_env_source =
                          IF e.active_env_source = NoText /\ activate_exists
                          THEN venv_path \o <<"/bin/activate">>
                          ELSE e.active_env_source]
       ELSE [e EXCEPT !.active_env = NoText, !.active_env_type = "none"]

\* what a probe shell may do: it cannot be started, or it exits with a
\* return code after writing out
ProbeResult(ran, returncode, out) ==
    [ran |-> ran, returncode |-> returncode, out |-> out]

\* apply_shell_environment on the fields e: whether it succeeded, the fields
\* it leaves and the lines it logs
apply_shell_environment(e, p, chdir_ok, activate_exists) ==
    IF ~p.ran
    THEN [ok |-> FALSE, env |-> e, out |-> <<Msg("probe_not_run")>>]
    ELSE IF p.returncode # 0
    THEN [ok |-> FALSE, env |-> e, out |-> <<Line("probe_failed", p.returncode, <<>>)>>]
    ELSE LET nl == IndexOf(p.out, NL)
             pwd_line == Strip(SubSeq(p.out, 1, nl - 1))
             env_blob == SubSeq(p.out, nl + 1, Len(p.out))
             has_sentinel == Len(pwd_line) > 0 /\ pwd_line[1] = Sentinel
             moves == has_sentinel /\ Len(pwd_line) > 1
             moved == IF moves
                      THEN [e EXCEPT !.cwd = pwd_line[2],
                                     !.process_cwd = IF chdir_ok THEN pwd_line[2]
                                                     ELSE e.process_cwd]
                      ELSE e
         IN IF nl = 0
            THEN [ok |-> FALSE, env |-> e, out |-> <<Msg("probe_unexpected_output")>>]
            ELSE [ok |-> TRUE,
                  env |-> refresh_env_state(
                             [moved EXCEPT !.environ =
                                  ReplaceEnviron(e.environ, ParseEnv(env_blob))],
                             activate_exists),
                  out |-> IF moves /\ ~chdir_ok THEN <<Msg("chdir_failed")>> ELSE <<>>]

\* the fields of e become the shell's
SetEnv(e) ==
    /\ cwd' = e.cwd
    /\ process_cwd' = e.process_cwd
    /\ environ' = e.environ
    /\ active_env' = e.active_env
    /\ active_env_type' = e.active_env_type
    /\ active_env_source' = e.active_env_source

\* outputs of the probe shell: the trailer alone, the trailer naming no
\* directory, the trailer after a line the command itself printed, and
\* output cut before the end of the first line
Assign(name, value) == <<name, "=">> \o value \o <<NUL>>
PathItem == Assign("PATH", <<"/bin">>)
VenvItem == Assign("VIRTUAL_ENV", <<"/opt", "venv">>)

\* the tables the probe shell ends with, and the directories it ends in
PlainTable == [name \in {<<"PATH">>} |-> <<"/bin">>]
VenvTable == [name \in {<<"PATH">>, <<"VIRTUAL_ENV">>} |->
                 IF name = <<"PATH">> THEN <<"/bin">> ELSE <<"/opt", "venv">>]
ProbeEnds == {[dir |-> "/tmp", table |-> VenvTable],
              [dir |-> Home, table |-> PlainTable]}

\* env -0: every variable of the table as name=value and a NUL
EnvDump(table) ==
    PathItem \o (IF <<"VIRTUAL_ENV">> \in DOMAIN table THEN VenvItem ELSE <<>>)

\* what the wrapped snippet writes when nothing else is written: the
\* sentinel, the directory, a newline and the dump
Trailer(end) == <<Sentinel, end.dir, NL>> \o EnvDump(end.table)

ProbeOutputs == {Trailer(end) : end \in ProbeEnds} \cup
                {<<Sentinel, NL>> \o PathItem,
                 <<"activated", NL, Sentinel, "/tmp", NL>> \o PathItem \o VenvItem,
                 <<Sentinel, "/tmp">>}
ProbeResults == {ProbeResult(FALSE, 0, <<>>), ProbeResult(TRUE, 1, <<>>)} \cup
                {ProbeResult(TRUE, 0, out) : out \in ProbeOutputs}

\* variant: source_file runs the probe whether the file exists or not
RunsProbe_unchecked(exists) == TRUE

\* source_file goes on to the probe shell only for a file that exists
RunsProbe(exists) == exists

\* os.path.expanduser("~name"): root's home, and one name for the home
\* of any other user
HomeOf(target) == IF target = W_root THEN "/root" ELSE "/home/other"

\* what switch_user finds at the home directory: it is no directory, it
\* may not be entered, chdir raises, or chdir succeeds
HomeStates == {"missing", "no_access", "chdir_fails", "entered"}

\* what the non-interactive check of the elevation tool does: it cannot be
\* run, it returns nonzero, it returns zero
CheckOutcomes == {"raises", "denied", "allowed"}

\* variant: a target the check denies becomes the active user all the same
CheckPasses_always(check) == TRUE

CheckPasses(check) == check = "allowed"

\* switch_user: whether it succeeded, the user and directories it leaves and
\* the lines it logs
switch_user(user_name, euid_root, sudo, check, home) ==
    LET target == Strip(user_name)
        home_dir == HomeOf(target)
        Stays(ok, user, lines) ==
            [ok |-> ok, active_user |-> user, cwd |-> cwd,
             process_cwd |-> process_cwd, out |-> lines]
        Enters(lines) ==
            CASE home = "missing" -> Stays(TRUE, target, lines)
              [] home = "no_access" ->
                    Stays(TRUE, target, lines \o <<Msg("home_no_permission")>>)
              [] home = "chdir_fails" ->
                    Stays(TRUE, target, lines \o <<Msg("chdir_failed")>>)
              [] home = "entered" ->
                    [ok |-> TRUE, active_user |-> target, cwd |-> home_dir,
                     process_cwd |-> home_dir,
                     out |-> lines \o <<Line("changed_directory", 0, <<home_dir>>)>>]
    IN IF Len(target) = 0
       THEN Stays(FALSE, active_user, <<Msg("user_missing_name")>>)
       ELSE IF target = RealUser
       THEN Stays(TRUE, RealUser, <<Line("user_reset", 0, RealUser)>>)
       ELSE IF target = active_user
       THEN Stays(TRUE, active_user, <<Line("user_already", 0, active_user)>>)
       ELSE IF euid_root /\ target = W_root
       THEN Enters(<<Msg("switched_to_root")>>)
       ELSE IF ~sudo
       THEN Stays(FALSE, active_user, <<Msg("sudo_unavailable")>>)
       ELSE IF check = "raises"
       THEN Stays(FALSE, active_user, <<Msg("user_check_error")>>)
       ELSE IF ~CheckPasses(check)
       THEN Stays(FALSE, active_user, <<Msg("user_denied")>>)
       ELSE Enters(<<Line("user_switched", 0, target)>>)

\* a call of switch_user by the router
SwitchUser(user_name, euid_root, sudo, check, home) ==
    LET r == switch_user(user_name, euid_root, sudo, check, home)
    IN /\ active_user' = r.active_user
       /\ cwd' = r.cwd
       /\ process_cwd' = r.process_cwd
       /\ output_lines' = add_output(output_lines, r.out)

\* the user a line of the user built-in names: "" when it names none
UserOperand(parts) ==
    IF parts[2] \in {<<"r", "e", "s", "e", "t">>, <<"d", "e", "f", "a", "u", "l", "t">>}
    THEN RealUser ELSE parts[2]

\* os.path.abspath of the operand of cd, for the directories the lines name
DirNamed(new_dir) ==
    IF new_dir = <<"~">> THEN Home
    ELSE IF new_dir = <<"/">> THEN "/"
    ELSE "/elsewhere"

\* execute_command from the built-in matching on; streams are the outputs
\* an interactive child may go on to produce; outs and errs are what a
\* foreground child has in its two pipes when the monitor starts and
\* scripts what it goes on to write; probes is what a probe shell may do,
\* present what os.path.exists may answer for a file to source
RouteFor(streams, outs, errs, scripts, probes, present) ==
    /\ pc = "dispatch"
    /\ pc' = "idle"
    /\ command' = <<>>
    /\ LET c == Classify(command)
           k == c.kind
       IN \/ /\ k \in {"help", "history_error", "history_list", "history_show",
                       "history_usage", "pwd", "jobs", "edit_error", "edit_usage"}
             /\ output_lines' = add_output(output_lines,
                    CASE k = "help" -> HelpLines
                      [] k = "history_error" -> <<Msg("history_parse_error")>>
                      [] k = "history_list" -> format_history_lines(command_history)
                      [] k = "history_show" ->
                            LET found == get_history_entry(command_history, c.n)
                            IN IF Len(found) > 0
                               THEN <<Line("history_entry", found[1].index,
                                           found[1].command)>>
                               ELSE <<Line("history_no_entry", c.n, <<>>)>>
                      [] k = "history_usage" -> <<Msg("history_usage")>>
                      [] k = "pwd" -> <<Text(<<cwd>>)>>
                      [] k = "jobs" -> JobsLines
                      [] k = "edit_error" -> <<Msg("edit_parse_error")>>
                      [] k = "edit_usage" -> <<Msg("edit_usage")>>)
             /\ UNCHANGED <<histVars, in_editor_mode, running, uncaught, sessionVars,
                            procVars, ptySessVars, filterVars>>
          \/ /\ k = "clear"
             /\ output_lines' = add_output(<<>>, <<Line("workdir", 0, <<cwd>>)>>)
             /\ UNCHANGED <<histVars, in_editor_mode, running, uncaught, sessionVars,
                            procVars, ptySessVars, filterVars>>
          \/ /\ k = "history_clear"
             /\ LET h == clear_history(HNow)
                IN /\ command_history' = h.command_history
                   /\ history_index' = h.history_index
                   /\ history_next_index' = h.history_next_index
                   /\ history_doc' = save_history(h, history_file, history_doc, "ok")
             /\ output_lines' = add_output(output_lines, <<Msg("history_cleared")>>)
             /\ UNCHANGED <<history_file, max_history, assigned, in_editor_mode, running,
                            uncaught, sessionVars, procVars, ptySessVars, filterVars>>
          \/ /\ k = "quit"
             /\ running' = FALSE
             /\ UNCHANGED <<histVars, output_lines, in_editor_mode, uncaught,
                            sessionVars, procVars, ptySessVars, filterVars>>
          \/ /\ k = "edit"
             /\ \E ok \in BOOLEAN :
                  /\ in_editor_mode' = ok
                  /\ output_lines' = add_output(output_lines,
                         IF ok THEN <<Msg("editor_opened"), Msg("editor_tips")>>
                         ELSE <<Msg("editor_failed")>>)
             /\ UNCHANGED <<histVars, running, uncaught, sessionVars, procVars,
                            ptySessVars, filterVars>>
          \/ /\ k = "cd"
             /\ \E chdir_ok \in BOOLEAN :
                  LET new_dir == DirNamed(Strip(SubSeq(Strip(command), 4,
                                                        Len(Strip(command)))))
                  IN IF chdir_ok
                     THEN /\ cwd' = new_dir
                          /\ process_cwd' = new_dir
                          /\ output_lines' = add_output(output_lines,
                                 <<Line("changed_directory", 0, <<new_dir>>)>>)
                     ELSE /\ output_lines' = add_output(output_lines, <<Msg("cd_error")>>)
                          /\ UNCHANGED <<cwd, process_cwd>>
             /\ UNCHANGED <<histVars, in_editor_mode, running, uncaught, active_user,
                            environ, active_env, active_env_type, active_env_source,
                            probes_run, procVars, ptySessVars, filterVars>>
          \/ /\ k \in {"root", "user"}
             /\ LET split == ShlexSplit(command)
                IN IF k = "user" /\ ~split.ok
                   THEN /\ output_lines' = add_output(output_lines,
                                               <<Msg("user_parse_error")>>)
                        /\ UNCHANGED <<active_user, cwd, process_cwd>>
                   ELSE IF k = "user" /\ Len(split.parts) = 1
                   THEN /\ output_lines' = add_output(output_lines,
                               <<Line("current_user", 0, active_user), Msg("user_usage")>>)
                        /\ UNCHANGED <<active_user, cwd, process_cwd>>
                   ELSE \E euid_root \in BOOLEAN, sudo \in BOOLEAN,
                           check \in CheckOutcomes, home \in HomeStates :
                          SwitchUser(IF k = "root" THEN W_root
                                     ELSE UserOperand(split.parts),
                                     euid_root, sudo, check, home)
             /\ UNCHANGED <<histVars, in_editor_mode, running, uncaught, environ,
                            active_env, active_env_type, active_env_source,
                            probes_run, procVars, ptySessVars, filterVars>>
          \/ /\ k = "source"
             /\ LET parts == SplitWords(Strip(command))
                IN IF Len(parts) < 2
                   THEN /\ output_lines' = add_output(output_lines,
                                               <<Msg("source_missing_operand")>>)
                        /\ UNCHANGED <<cwd, process_cwd, environ, active_env,
                                       active_env_type, active_env_source, probes_run>>
                   ELSE \E exists \in present :
                          IF ~RunsProbe(exists)
                          THEN /\ output_lines' = add_output(output_lines,
                                      <<Msg("source_file_not_found")>>)
                               /\ UNCHANGED <<cwd, process_cwd, environ, active_env,
                                              active_env_type, active_env_source,
                                              probes_run>>
                          ELSE /\ probes_run < MaxProbes
                               /\ probes_run' = probes_run + 1
                               /\ \E p \in probes, chdir_ok \in BOOLEAN,
                                     activate_exists \in BOOLEAN :
                                    LET r == apply_shell_environment(EnvNow, p, chdir_ok,
                                                                     activate_exists)
                                    IN /\ SetEnv(r.env)
                                       /\ output_lines' = add_output(output_lines,
                                              r.out \o
                                              IF r.ok THEN <<Msg("sourced"),
                                                             Msg("sourced_note")>>
                                              ELSE <<>>)
             /\ UNCHANGED <<histVars, in_editor_mode, running, uncaught, active_user,
                            procVars, ptySessVars, filterVars>>
          \/ /\ k = "pty"
             /\ \E ok \in BOOLEAN, stream \in streams : start_pty_command(ok, stream)
             /\ UNCHANGED <<histVars, in_editor_mode, running, uncaught, sessionVars,
                            foreground_process, running_processes, monitors>>
          \/ /\ k = "export"
             /\ \E ok \in BOOLEAN, stream \in streams :
                  StartPty(ok, stream, W_bash,
                           <<Msg("export_needs_bash"), Msg("starting_bash")>>,
                           Append(command, NL))
             /\ UNCHANGED <<histVars, in_editor_mode, running, uncaught, sessionVars,
                            foreground_process, running_processes, monitors>>
          \/ /\ k = "background"
             /\ \E ok \in BOOLEAN :
                  IF ok /\ FreshPid # None
                  THEN /\ procs' = [procs EXCEPT ![FreshPid] =
                                      [status |-> "running", returncode |-> 0,
                                       stdout |-> BackgroundOutput,
                                       stderr |-> <<>>, sigint |-> "none",
                                       args |-> BackgroundCommand(command),
                                       script |-> <<>>]]
                       /\ running_processes' = Append(running_processes, FreshPid)
                       /\ output_lines' = add_output(output_lines,
                                              <<Line("background_started", FreshPid, <<>>)>>)
                  ELSE /\ output_lines' = add_output(output_lines, SpawnErrorLines)
                       /\ UNCHANGED <<procs, running_processes>>
             /\ UNCHANGED <<histVars, in_editor_mode, running, uncaught, sessionVars,
                            foreground_process, monitors, ptySessVars, filterVars>>
          \/ /\ k = "foreground"
             /\ \E ok \in BOOLEAN, out \in outs, err \in errs, script \in scripts :
                  IF ok /\ FreshPid # None
                  THEN /\ procs' = [procs EXCEPT ![FreshPid] =
                                      [status |-> "running", returncode |-> 0,
                                       stdout |-> out, stderr |-> err,
                                       sigint |-> "none", args |-> command,
                                       script |-> script]]
                       /\ running_processes' = Append(running_processes, FreshPid)
                       /\ foreground_process' = FreshPid
                       /\ monitors' = [monitors EXCEPT ![FreshPid] = "reading"]
                       /\ UNCHANGED output_lines
                  ELSE /\ output_lines' = add_output(output_lines, SpawnErrorLines)
                       /\ UNCHANGED <<procs, running_processes, foreground_process,
                                      monitors>>
             /\ UNCHANGED <<histVars, in_editor_mode, running, uncaught, sessionVars,
                            ptySessVars, filterVars>>

\* with foreground children that have written all they write
RouteOn(streams, outs, probes, present) ==
    RouteFor(streams, outs, StderrChoices, {<<>>}, probes, present)

RouteWith(streams, outs) == RouteOn(streams, outs, ProbeResults, BOOLEAN)

\* with children that write nothing on stdout
Route(streams) == RouteWith(streams, StdoutChoices)

Dispatch == Route(PtyStreams)

\* exit_editor, called by the editor screen
ExitEditor ==
    /\ pc = "idle" /\ ~uncaught
    /\ in_editor_mode
    /\ in_editor_mode' = FALSE
    /\ output_lines' = add_output(output_lines, <<Msg("editor_closed")>>)
    /\ UNCHANGED <<histVars, pc, command, running, uncaught, sessionVars, procVars,
                   ptySessVars, filterVars>>

(***************************************************************************)
(* Child processes and the foreground monitor worker (monitor_process).    *)
(***************************************************************************)
ExitCodes == {0, 1}

\* a child exits by itself; a PTY child only after producing all its output
ProcExit(p, rc) ==
    /\ procs[p].status = "running"
    /\ procs[p].script = <<>>
    /\ p = pty_process => pty_stream = <<>>
    /\ procs' = [procs EXCEPT ![p].status = "exited", ![p].returncode = rc]
    /\ UNCHANGED <<histVars, output_lines, routerVars, sessionVars,
                   foreground_process, running_processes, monitors, ptySessVars,
                   filterVars>>

\* what a pipe holds before a write to it blocks, in lines
PipeCap == 2

\* the child's next write; it blocks while the pipe it goes to is full
ChildWrite(p) ==
    /\ procs[p].status = "running"
    /\ procs[p].script # <<>>
    /\ LET w == Head(procs[p].script)
       IN IF w.fd = "stdout"
          THEN /\ Len(procs[p].stdout) < PipeCap
               /\ procs' = [procs EXCEPT ![p].stdout = Append(@, w.line),
                                         ![p].script = Tail(@)]
          ELSE /\ Len(procs[p].stderr) < PipeCap
               /\ procs' = [procs EXCEPT ![p].stderr = Append(@, w.line),
                                         ![p].script = Tail(@)]
    /\ UNCHANGED <<histVars, output_lines, routerVars, sessionVars,
                   foreground_process, running_processes, monitors, ptySessVars,
                   filterVars>>

\* one pass of the stdout loop: a line is read and forwarded
MonitorRead(p) ==
    /\ monitors[p] = "reading"
    /\ Len(procs[p].stdout) > 0
    /\ output_lines' = add_output(output_lines, <<Text(RStrip(procs[p].stdout[1]))>>)
    /\ procs' = [procs EXCEPT ![p].stdout = Tail(procs[p].stdout)]
    /\ UNCHANGED <<histVars, routerVars, sessionVars, foreground_process,
                   running_processes, monitors, ptySessVars, filterVars>>

\* variant: the exit code is reported whatever it is
ExitCodeLines_always(rc) == <<Line("exit_code", rc, <<>>)>>

\* "[Exit Code] n", if process.returncode != 0
ExitCodeLines(rc) == IF rc # 0 THEN <<Line("exit_code", rc, <<>>)>> ELSE <<>>

\* end of stdout, wait(), then stderr, exit code and completion lines
MonitorReport(p) ==
    /\ monitors[p] = "reading"
    /\ Len(procs[p].stdout) = 0
    /\ procs[p].status = "exited"
    /\ output_lines' = add_output(output_lines,
           [i \in 1..Len(procs[p].stderr) |-> Line("stderr", 0, procs[p].stderr[i])]
           \o ExitCodeLines(procs[p].returncode)
           \o <<Msg("command_completed")>>)
    /\ procs' = [procs EXCEPT ![p].stderr = <<>>]
    /\ monitors' = [monitors EXCEPT ![p] = "vacating"]
    /\ UNCHANGED <<histVars, routerVars, sessionVars, foreground_process,
                   running_processes, ptySessVars, filterVars>>

\* an exception inside the try block (a line that cannot be decoded, a
\* failing wait): it is reported and the finally block follows
MonitorFail(p) ==
    /\ monitors[p] = "reading"
    /\ output_lines' = add_output(output_lines, <<Msg("monitoring_failed")>>)
    /\ monitors' = [monitors EXCEPT ![p] = "failing"]
    /\ UNCHANGED <<histVars, routerVars, sessionVars, foreground_process,
                   running_processes, procs, ptySessVars, filterVars>>

\* variant: the entry is taken from the table but the slot is kept
VacatedSlot_kept(p) == foreground_process

\* variant: the slot is cleared whichever process it refers to
VacatedSlot_cleared(p) == None

\* what the finally block leaves in the foreground slot
VacatedSlot(p) == IF foreground_process = p THEN None ELSE foreground_process

\* the finally block, under the lock; the worker ends
MonitorVacate(p) ==
    /\ monitors[p] \in {"vacating", "failing"}
    /\ running_processes' = SelectSeq(running_processes, LAMBDA q : q # p)
    /\ foreground_process' = VacatedSlot(p)
    /\ monitors' = [monitors EXCEPT ![p] = IF monitors[p] = "vacating"
                                           THEN "done" ELSE "failed"]
    /\ UNCHANGED <<histVars, output_lines, routerVars, sessionVars, procs,
                   ptySessVars, filterVars>>

(***************************************************************************)
(* PTY reader worker (read_pty_output) and cleanup_pty.                    *)
(***************************************************************************)
MaxChunk == 2

\* one iteration of the read loop that gets k characters from os.read
PtyRead(k) ==
    /\ pty_thread = "reading"
    /\ in_pty_mode /\ pty_master # None
    /\ k \in 1..Len(pty_stream)
    /\ LET text == SubSeq(pty_stream, 1, k)
           F == FilterText(FNow, text)
       IN /\ pty_stream' = SubSeq(pty_stream, k + 1, Len(pty_stream))
          /\ pty_fed' = pty_fed \o text
          /\ current_line' = F.current_line
          /\ cursor_pos' = F.cursor_pos
          /\ escape_buffer' = F.escape_buffer
          /\ in_escape' = F.in_escape
          /\ output_lines' = add_output(output_lines, F.out)
          /\ pty_partial_line' = IF F.died THEN pty_partial_line
                                 ELSE strip_ansi_codes(F.current_line)
          /\ pty_thread' = IF F.died THEN "dead" ELSE "reading"
    /\ UNCHANGED <<histVars, routerVars, sessionVars, procVars, in_pty_mode,
                   pty_process, pty_master, pty_cleanups, pty_written>>

\* the loop ends (session flag cleared, end of stream, or OSError); the
\* partial line is flushed and cleanup_pty clears the session flag
\* `failed`: select or os.read fails, or reads nothing, with the child alive
PtyLoopEnds(failed) ==
    /\ pty_thread = "reading"
    /\ \/ ~in_pty_mode
       \/ pty_master = None
       \/ /\ pty_stream = <<>>
          /\ pty_process # None /\ procs[pty_process].status = "exited"
       \/ /\ failed
          /\ pty_process # None /\ procs[pty_process].status = "running"
    /\ LET clean_line == strip_ansi_codes(current_line)
       IN output_lines' = IF Len(current_line) > 0 /\ ~IsBlank(clean_line)
                          THEN add_output(output_lines, <<Text(clean_line)>>)
                          ELSE output_lines
    /\ pty_partial_line' = <<>>
    /\ in_pty_mode' = FALSE
    /\ pty_thread' = "none"
    /\ pty_cleanups' = pty_cleanups + 1
    /\ UNCHANGED <<histVars, routerVars, sessionVars, procVars, pty_process,
                   pty_master, pty_written, pty_stream, pty_fed, current_line,
                   cursor_pos, escape_buffer, in_escape>>

\* the loop ends with the reads working
PtyLoopExit == PtyLoopEnds(FALSE)

\* the rest of cleanup_pty: terminate/wait/kill, close the master, report;
\* `obeys`: the child ends on SIGTERM within the two seconds of the wait
PtyCleanupWith(obeys) ==
    /\ pty_cleanups > 0
    /\ pty_cleanups' = pty_cleanups - 1
    /\ procs' = IF obeys THEN Terminated(procs, pty_process)
                ELSE Killed(procs, pty_process)
    /\ pty_process' = None
    /\ pty_master' = None
    /\ output_lines' = add_output(output_lines, <<Msg("exited_interactive")>>)
    /\ UNCHANGED <<histVars, routerVars, sessionVars, foreground_process,
                   running_processes, monitors, in_pty_mode, pty_thread,
                   pty_written, filterVars>>

\* cleanup_pty of a child that ends on SIGTERM
PtyCleanup == PtyCleanupWith(TRUE)

(***************************************************************************)
(* Interrupt key (interrupt_foreground, send_key_to_pty).                  *)
(***************************************************************************)
\* os.killpg: the signal goes to the child's process group
KillTarget == "group"

\* variant: the key is sent as the two characters ^C
KeyBytes_caret == <<"^", "C">>

\* key_map['CTRL_C']
KeyBytes == <<ETX>>

\* interrupt_foreground; `traps`: the child handles SIGINT and goes on
InterruptForeground(traps) ==
    /\ pc = "idle" /\ ~uncaught
    /\ IF in_pty_mode
       THEN /\ Len(pty_written) < MaxPtyWrites
            /\ pty_written' = send_to_pty(pty_written, KeyBytes)
            /\ UNCHANGED <<histVars, output_lines, routerVars, sessionVars, procVars,
                           in_pty_mode, pty_process, pty_master, pty_thread,
                           pty_cleanups, filterVars>>
       ELSE /\ Len(output_lines) < MaxLog
            /\ IF /\ foreground_process # None
                  /\ procs[foreground_process].status = "running"
               THEN /\ procs' = [procs EXCEPT
                                   ![foreground_process].sigint = KillTarget,
                                   ![foreground_process].status =
                                       IF traps THEN "running" ELSE "exited",
                                   ![foreground_process].returncode =
                                       IF traps THEN @ ELSE -2]
                    /\ output_lines' = add_output(output_lines, <<Msg("interrupt_sent")>>)
               ELSE /\ output_lines' = add_output(output_lines,
                                            <<Msg("nothing_to_interrupt")>>)
                    /\ UNCHANGED procs
            /\ UNCHANGED <<histVars, routerVars, sessionVars, foreground_process,
                           running_processes, monitors, ptySessVars, filterVars>>

(***************************************************************************)
(* The session: dispatch thread, workers and children together.            *)
(***************************************************************************)
Lines == {<<"!", "1">>,
          <<"!", "2">>,
          <<"l", "s">>,
          <<"s", "h">>,
          <<"h", "i", "s", "t", "o", "r", "y", SP, "-", "c">>,
          <<"h", "i", "s", "t", "o", "r", "y", SP, "1">>,
          <<"h", "i", "s", "t", "o", "r", "y", SP, "x">>,
          <<"e", "d", "i", "t", SP, "f">>,
          <<SP, SP>>}

\* what an earlier run that executed one command left on disk
EarlierDoc == EncodeHistory(add_history_entry(H0, <<"l", "s">>, MaxCap))

\* a first start, or a start that finds the history of an earlier run
Init == \E doc \in {DocMissing, EarlierDoc} :
            StartIn(Constructed(MaxCap, TRUE, doc))

Next ==
    \/ \E line \in Lines : Submit(line)
    \/ Dispatch
    \/ ExitEditor
    \/ GetHistoryPrev
    \/ GetHistoryNext
    \/ \E p \in Pids, rc \in ExitCodes : ProcExit(p, rc)
    \/ \E p \in Pids : MonitorReport(p)
    \/ \E p \in Pids : MonitorVacate(p)
    \/ \E k \in 1..MaxChunk : PtyRead(k)
    \/ PtyLoopExit
    \/ PtyCleanup

Spec == Init /\ [][Next]_vars

(***************************************************************************)
(* The PTY line filter fed with chosen streams: one interactive command,   *)
(* its reader worker and its child.                                         *)
(***************************************************************************)
W_sh == <<"s", "h">>

HelloText == <<"h", "e", "l", "l", "o">>
HelloStream == HelloText \o <<ESC, "[", "2", "D">> \o <<ESC, "[", "K">>
                   \o <<"h", "i", NL>>
ErrorText == <<"E", "R", "R", "O", "R">>
ColourStream == <<ESC, "[", "3", "1", "m">> \o ErrorText
                    \o <<ESC, "[", "0", "m", NL>>

\* sequences that are none of cursor-left, cursor-right and erase-to-end
ColourRed == <<ESC, "[", "3", "1", "m">>
CursorUp == <<ESC, "[", "A">>
CursorDown == <<ESC, "[", "2", "B">>
HideCursor == <<ESC, "[", "?", "2", "5", "l">>
WindowTitle == <<ESC, "]", "0", ";", "t", "i", BEL>>
KeypadMode == <<ESC, "=">>
CharsetSelect == <<ESC, "(", "0">>
OtherSequences == {ColourRed, CursorUp, CursorDown, HideCursor, WindowTitle,
                   KeypadMode, CharsetSelect}

\* a child that writes "a", one such sequence, then "b" and a newline
Bracketed(sequence) == <<"a">> \o sequence \o <<"b", NL>>
OtherStreams == {Bracketed(sequence) : sequence \in OtherSequences}

MaxStream == 2
FilterAlphabet == {"a", ESC, "[", "K", NL}
ShortStreams == UNION {[1..n -> FilterAlphabet] : n \in 1..MaxStream}
FilterStreams == {HelloStream, ColourStream} \cup OtherStreams \cup ShortStreams

FilterInit == StartIn(Constructed(MaxCap, TRUE, DocMissing))

FilterNext ==
    \/ Submit(W_sh)
    \/ Route(FilterStreams)
    \/ \E k \in 1..MaxChunk : PtyRead(k)
    \/ \E p \in Pids, rc \in ExitCodes : ProcExit(p, rc)
    \/ PtyLoopExit
    \/ PtyCleanup

SpecFilter == FilterInit /\ [][FilterNext]_vars

(***************************************************************************)
(* PTY sessions: the interactive and export branches, start_pty_command    *)
(* called on its own, the reader worker and cleanup_pty.                   *)
(***************************************************************************)
MaxJobs == 2
JobPids == 1..MaxJobs

W_ls == <<"l", "s">>
ExportLine == <<"e", "x", "p", "o", "r", "t", SP, "A">>
PtyLines == {W_sh, ExportLine}

\* the constructed state with room for MaxJobs children
JobsStart ==
    [Constructed(MaxCap, TRUE, DocMissing) EXCEPT
        !.procs = [p \in JobPids |-> NoProc],
        !.monitors = [p \in JobPids |-> "none"]]

PtyInit == StartIn(JobsStart)

\* start_pty_command called by code other than execute_command
StartPtyDirect ==
    /\ pc = "idle" /\ ~uncaught
    /\ Len(output_lines) < MaxLog
    /\ \E ok \in BOOLEAN, stream \in PtyStreams : StartPty(ok, stream, W_sh, <<>>, <<>>)
    /\ UNCHANGED <<histVars, routerVars, sessionVars, foreground_process,
                   running_processes, monitors>>

PtyNext ==
    \/ \E line \in PtyLines : Submit(line)
    \/ Dispatch
    \/ StartPtyDirect
    \/ \E p \in JobPids, rc \in ExitCodes : ProcExit(p, rc)
    \/ \E k \in 1..MaxChunk : PtyRead(k)
    \/ \E failed \in BOOLEAN : PtyLoopEnds(failed)
    \/ \E obeys \in BOOLEAN : PtyCleanupWith(obeys)

SpecPty == PtyInit /\ [][PtyNext]_vars

(***************************************************************************)
(* The interrupt key with a foreground command and a PTY session.          *)
(***************************************************************************)
KeyLines == {W_sh, W_ls}

KeyInit == StartIn(JobsStart)

\* the steps of the worker that monitors p
Monitor(p) == MonitorReport(p) \/ MonitorVacate(p)

KeyNext ==
    \/ \E line \in KeyLines : Submit(line)
    \/ Dispatch
    \/ \E traps \in BOOLEAN : InterruptForeground(traps)
    \/ \E p \in JobPids, rc \in ExitCodes : ProcExit(p, rc)
    \/ \E p \in JobPids : Monitor(p)
    \/ \E k \in 1..MaxChunk : PtyRead(k)
    \/ PtyLoopExit
    \/ PtyCleanup

SpecKey == KeyInit /\ [][KeyNext]_vars

\* the monitor workers are threads of their own: each keeps being scheduled
SpecKeyFair == SpecKey /\ \A p \in JobPids : WF_vars(Monitor(p))

(***************************************************************************)
(* Foreground and background commands, their monitor workers and jobs.     *)
(***************************************************************************)
W_ls_bg == <<"l", "s", SP, "&">>
JobLines == {W_ls, W_ls_bg, W_jobs}

\* what a foreground child writes on stdout: two lines, the first of them
\* with trailing white space
JobOutput == <<<<"x", SP>>, <<"y">>>>

JobsInit == StartIn(JobsStart)

JobsNext ==
    \/ \E line \in JobLines : Submit(line)
    \/ Dispatch
    \/ \E p \in JobPids, rc \in ExitCodes : ProcExit(p, rc)
    \/ \E p \in JobPids : Monitor(p)

SpecJobs == JobsInit /\ [][JobsNext]_vars

(***************************************************************************)
(* Foreground commands that write to stdout, and monitor workers that may  *)
(* fail.                                                                   *)
(***************************************************************************)
MonitorInit == StartIn(Constructed(MaxCap, TRUE, DocMissing))

\* the steps of the worker that monitors p, the failing one included
MonitorAny(p) ==
    MonitorRead(p) \/ MonitorReport(p) \/ MonitorFail(p) \/ MonitorVacate(p)

MonitorNext ==
    \/ Submit(W_ls)
    \/ RouteWith(PtyStreams, {JobOutput})
    \/ \E p \in Pids, rc \in ExitCodes : ProcExit(p, rc)
    \/ \E p \in Pids : MonitorAny(p)

SpecMonitor == MonitorInit /\ [][MonitorNext]_vars

(***************************************************************************)
(* The output log filled to its capacity: add_output called, by whichever  *)
(* thread, with one line or with a list of lines.                          *)
(***************************************************************************)
MaxSerial == 520

\* a call passes one line, or as many as help prints
BatchSizes == {1, HelpLineCount}

\* lines are numbered in the order they are appended
LastSerial == IF Len(output_lines) > 0 /\ Last(output_lines).tag = "numbered"
              THEN Last(output_lines).n ELSE 0
Batch(b) == [i \in 1..b |-> Line("numbered", LastSerial + i, <<>>)]

AddOutput(b) ==
    /\ LastSerial + b <= MaxSerial
    /\ output_lines' = add_output(output_lines, Batch(b))
    /\ UNCHANGED <<histVars, routerVars, sessionVars, procVars, ptySessVars,
                   filterVars>>

LogInit == StartIn(Constructed(MaxCap, TRUE, DocMissing))

LogNext == \E b \in BatchSizes : AddOutput(b)

SpecLog == LogInit /\ [][LogNext]_vars

(***************************************************************************)
(* Launches of every kind, any of which may fail to spawn its child.       *)
(***************************************************************************)
SpawnLines == {W_ls, W_ls_bg, W_sh, ExportLine}

SpawnInit == StartIn(Constructed(MaxCap, TRUE, DocMissing))

SpawnNext ==
    \/ \E line \in SpawnLines : Submit(line)
    \/ Dispatch
    \/ \E p \in Pids, rc \in ExitCodes : ProcExit(p, rc)
    \/ \E p \in Pids : Monitor(p)
    \/ \E k \in 1..MaxChunk : PtyRead(k)
    \/ PtyLoopExit
    \/ PtyCleanup

SpecSpawn == SpawnInit /\ [][SpawnNext]_vars

\* each monitor worker is a thread of its own and keeps being scheduled
(***************************************************************************)
(* Sourcing files and switching users.                                     *)
(***************************************************************************)
W_bob == <<"b", "o", "b">>
SourceLine == W_source \o <<"f">>
DotLine == W_dot \o <<"f">>
EnvLines == {SourceLine, DotLine, W_root, W_user \o <<SP>> \o W_bob,
             W_user \o <<SP, "'", "'">>}

EnvInit == StartIn(Constructed(MaxCap, TRUE, DocMissing))

EnvNext ==
    \/ \E line \in EnvLines : Submit(line)
    \/ Dispatch

SpecEnv == EnvInit /\ [][EnvNext]_vars

(***************************************************************************)
(* Lines typed while an editor or a PTY session is open.                   *)
(***************************************************************************)
EditLine == W_edit \o <<SP, "f">>
GateLines == {EditLine, W_sh, W_quit, W_clear, W_cd \o <<"/">>, <<"!", "1">>,
              <<SP>>}

GateInit == StartIn(Constructed(MaxCap, TRUE, DocMissing))

\* clear empties the log, so the lines typed are bounded by the index the
\* next history entry would get
GateNext ==
    \/ \E line \in GateLines : history_next_index <= StoreMaxIndex /\ Submit(line)
    \/ Dispatch
    \/ ExitEditor

SpecGate == GateInit /\ [][GateNext]_vars

(***************************************************************************)
(* Routing of lines to the built-ins and to the three ways of launching.   *)
(***************************************************************************)
RouteLines == {W_history \o <<"x">>,
               W_edit \o <<"o", "r", SP, "f">>,
               W_user \o <<"s">>,
               W_user \o <<"a", "d", "d", SP>> \o W_bob,
               W_history,
               W_ls,
               <<SP>> \o W_ls_bg \o <<SP>>,
               W_sh \o <<SP, "&">>}

RouteInit == StartIn(JobsStart)

RouteNext ==
    \/ \E line \in RouteLines : Submit(line)
    \/ Dispatch

SpecRoute == RouteInit /\ [][RouteNext]_vars

(***************************************************************************)
(* The line filter on streams put together from printable characters,      *)
(* carriage return, backspace, newline, cursor moves and erase-to-end.      *)
(***************************************************************************)
MaxItems == 3
CursorLeft == <<ESC, "[", "D">>
CursorRightTwo == <<ESC, "[", "2", "C">>
CursorRightMinusOne == <<ESC, "[", "-", "1", "C">>
EraseToEnd == <<ESC, "[", "K">>
StreamItems == {<<"a">>, <<"b">>, <<SP>>, <<CR>>, <<BS>>, <<NL>>, CursorLeft,
                CursorRightTwo, CursorRightMinusOne, EraseToEnd}

RECURSIVE Concat(_)
Concat(items) == IF Len(items) = 0 THEN <<>> ELSE Head(items) \o Concat(Tail(items))

CursorStreams == {Concat(items) : items \in UNION {[1..n -> StreamItems] : n \in 1..MaxItems}}

CursorInit == StartIn(Constructed(MaxCap, TRUE, DocMissing))

CursorNext ==
    \/ Submit(W_sh)
    \/ Route(CursorStreams)
    \/ \E k \in 1..MaxChunk : PtyRead(k)

SpecCursor == CursorInit /\ [][CursorNext]_vars

SpecMonitorFair == SpecMonitor /\ \A p \in Pids : WF_vars(MonitorAny(p))

(***************************************************************************)
(* Foreground children that write to both pipes while the monitor reads.   *)
(***************************************************************************)
ToOut(line) == [fd |-> "stdout", line |-> line]
ToErr(line) == [fd |-> "stderr", line |-> line]

\* a child that writes one line more to stderr than the pipe holds and then
\* a line to stdout
ErrFirst == [i \in 1..(PipeCap + 1) |-> ToErr(<<"e">>)] \o <<ToOut(<<"x">>)>>

\* a child that writes one line more to stdout than the pipe holds and then
\* a line to stderr
OutFirst == [i \in 1..(PipeCap + 1) |-> ToOut(<<"x">>)] \o <<ToErr(<<"e">>)>>

PipeScripts == {<<>>, <<ToOut(<<"x">>), ToErr(<<"e">>)>>, OutFirst, ErrFirst}

PipeInit == StartIn(JobsStart)

\* the steps of the child p: its writes and its exit
Child(p) == ChildWrite(p) \/ \E rc \in ExitCodes : ProcExit(p, rc)

\* the steps of the worker that monitors p when nothing raises
MonitorSteps(p) == MonitorRead(p) \/ MonitorReport(p) \/ MonitorVacate(p)

PipeNext ==
    \/ Submit(W_ls)
    \/ RouteFor(PtyStreams, {<<>>}, {<<>>}, PipeScripts, ProbeResults, BOOLEAN)
    \/ \E p \in JobPids : ChildWrite(p)
    \/ \E p \in JobPids, rc \in ExitCodes : ProcExit(p, rc)
    \/ \E p \in JobPids : MonitorRead(p)
    \/ \E p \in JobPids : MonitorReport(p)
    \/ \E p \in JobPids : MonitorVacate(p)

SpecPipe == PipeInit /\ [][PipeNext]_vars

\* the child and the monitor worker each keep being scheduled: a child
\* whose next write does not block writes, a child that has written all
\* exits, a worker whose read can return goes on
SpecPipeFair ==
    SpecPipe /\ \A p \in JobPids : WF_vars(Child(p)) /\ WF_vars(MonitorSteps(p))

(***************************************************************************)
(* Properties of the history store.                                        *)
(***************************************************************************)

\* C1: after any sequence of appends and trims, history_next_index is
\* strictly greater than the index of every stored entry.
C1_NextIndexAboveStored ==
    \A i \in 1..Len(command_history) :
        command_history[i].index < history_next_index

\* a history that has been trimmed to its retention cap
C1_Witness ==
    /\ max_history > 0
    /\ Len(command_history) = max_history
    /\ command_history[1].index > 1
    /\ history_next_index = Last(command_history).index + 1

\* C2: indices are never reused: the index given to a newly appended entry
\* is greater than every index an entry has carried before.
C2_IndicesNeverReused ==
    [][\A cmd \in StoreLines :
         AddHistoryEntry(cmd, "ok")
         => \A j \in assigned : j < Last(command_history').index]_vars

\* the last max_history entries of a history, written without Trim
Retained(entries, cap) ==
    IF cap # 0 /\ Len(entries) > cap
    THEN [i \in 1..cap |-> entries[Len(entries) - cap + i]]
    ELSE entries

\* C5: loading the document that save_history wrote yields the same ordered
\* entries, limited to the last max_history of them.
C5_RoundTrip ==
    [][\A cap \in Caps :
         (history_file /\ history_doc = EncodeHistory(HNow) /\ Restart(cap))
         => /\ command_history' = Retained(command_history, cap)
            /\ history_next_index' = history_next_index]_vars

\* a reload under a smaller cap has kept the newest entries of the document
C5_Witness ==
    /\ max_history > 0
    /\ Len(command_history) = max_history
    /\ history_doc.kind = "dict"
    /\ Len(history_doc.entries.items) > max_history
    /\ Last(command_history).index = Last(history_doc.entries.items).index.n
    /\ history_next_index = history_doc.next_index.n

\* C6: loading is never fatal: with a missing or corrupt file load_history
\* returns without raising and the history is empty.
C6_LoadNeverFatal ==
    [][\A cap \in Caps :
         (/\ history_file
          /\ \/ history_doc.kind # "dict"
             \/ history_doc.entries.t = "other"
          /\ Restart(cap))
         => /\ ~uncaught'
            /\ command_history' = <<>>]_vars

(***************************************************************************)
(* Properties of the command router.                                       *)
(***************************************************************************)
RefersToStored(line) ==
    /\ IsHistoryReference(line)
    /\ Len(get_history_entry(command_history, ReferencedIndex(line))) > 0

RefersToMissing(line) ==
    /\ IsHistoryReference(line)
    /\ Len(get_history_entry(command_history, ReferencedIndex(line))) = 0

\* C3: with no editor or PTY session open, !N for a stored index N resolves
\* to the stored text, routes it, and appends a new entry holding it under
\* an index that no earlier entry has used.
C3_ReferenceAppendsUnderNewIndex ==
    [][\A line \in Lines :
         (/\ pc = "idle" /\ ~in_editor_mode /\ ~in_pty_mode
          /\ RefersToStored(line)
          /\ Submit(line))
         => /\ pc' = "dispatch"
            /\ command' =
                 get_history_entry(command_history, ReferencedIndex(line))[1].command
            /\ Last(command_history').command = command'
            /\ Last(command_history').index \notin assigned]_vars

\* what a failing !N does: one missing-index line and nothing else
OnlyMissingIndexLine(line) ==
    /\ output_lines' = add_output(output_lines,
           <<Line("history_no_entry", ReferencedIndex(line), <<>>)>>)
    /\ UNCHANGED <<histVars, routerVars, sessionVars, procVars, ptySessVars,
                   filterVars>>

\* C4 as stated: !N for a missing index N appends a missing-index error
\* line and changes nothing else, whatever session is open.
C4_MissingReferenceInAnyMode ==
    [][\A line \in Lines :
         (pc = "idle" /\ RefersToMissing(line) /\ Submit(line))
         => OnlyMissingIndexLine(line)]_vars

\* C4: with no editor or PTY session open, !N for a missing index N appends
\* a missing-index error line and changes nothing else.
C4_MissingReferenceOnlyReports ==
    [][\A line \in Lines :
         (/\ pc = "idle" /\ ~in_editor_mode /\ ~in_pty_mode
          /\ RefersToMissing(line)
          /\ Submit(line))
         => OnlyMissingIndexLine(line)]_vars

\* a failing reference has just been reported
C4_Witness ==
    /\ Len(output_lines) > 0
    /\ Last(output_lines).tag = "history_no_entry"
    /\ Len(get_history_entry(command_history, Last(output_lines).n)) = 0
    /\ Len(command_history) > 0
    /\ pc = "idle"

\* the lines that are a direct lookup: !N and history N
DirectLookups ==
    {line \in Lines :
        IsHistoryReference(line) \/ Classify(line).kind = "history_show"}

SameResolution ==
    \A n \in 0..history_next_index :
        get_history_entry(command_history', n) = get_history_entry(command_history, n)

\* the entry the recall cursor designates, if it designates one
CursorEntry(entries, i) ==
    IF i >= 0 /\ i < Len(entries) THEN <<entries[i + 1]>> ELSE <<>>

\* the cursor designates the same entry as before, or is still past the end
SameCursorPosition ==
    CursorEntry(command_history', history_index')
        = CursorEntry(command_history, history_index)

\* C7 as stated: executing a direct lookup (!N, history N) leaves the
\* recall cursor where it was, and sequential recall never changes which
\* entry an index resolves to.
C7_LookupLeavesCursor ==
    [][/\ \A line \in DirectLookups :
            (/\ pc = "idle" /\ ~in_editor_mode /\ ~in_pty_mode
             /\ Submit(line))
            => SameCursorPosition
       /\ (pc = "dispatch" /\ Classify(command).kind = "history_show" /\ Dispatch)
            => SameCursorPosition
       /\ (pc = "idle" /\ (GetHistoryPrev \/ GetHistoryNext)) => SameResolution]_vars

\* C7: the lookup itself leaves the recall cursor where it was (a failing
\* !N, and the listing done by history N); a line that passes resolution is
\* appended like any other, which puts the cursor after the last entry;
\* sequential recall never changes which entry an index resolves to.
C7_OnlyTheAppendMovesCursor ==
    [][/\ \A line \in DirectLookups :
            (pc = "idle" /\ Submit(line))
            => IF pc' = "dispatch"
               THEN history_index' = Len(command_history')
               ELSE history_index' = history_index
       /\ (pc = "dispatch" /\ Classify(command).kind = "history_show" /\ Dispatch)
            => UNCHANGED histVars
       /\ (pc = "idle" /\ (GetHistoryPrev \/ GetHistoryNext))
            => SameResolution /\ UNCHANGED history_next_index]_vars

\* a recalled command has been appended and awaits dispatch, the cursor
\* after the last entry
C7_Witness ==
    /\ pc = "dispatch"
    /\ Len(output_lines) > 1
    /\ output_lines[Len(output_lines) - 1].tag = "history_recalled"
    /\ Len(command_history) > 1
    /\ history_index = Len(command_history)

\* C8: a line that reaches built-in matching has exactly one entry appended
\* before any built-in or process action takes effect, and the entry stays
\* when the command fails.
C8_AppendedBeforeExecution ==
    [][/\ \A line \in Lines :
            (pc = "idle" /\ Submit(line))
            => /\ (pc' = "dispatch") <=>
                    (/\ Len(Strip(line)) > 0 /\ ~in_editor_mode /\ ~in_pty_mode
                     /\ ~RefersToMissing(line))
               /\ (pc' = "dispatch") =>
                    /\ Len(command_history') > 0
                    /\ Last(command_history') = Entry(history_next_index, command')
                    /\ \A i \in 1..(Len(command_history') - 1) :
                         command_history'[i] =
                           command_history[Len(command_history)
                                             - (Len(command_history') - 1) + i]
                    /\ Len(command_history') =
                         IF max_history # 0 /\ Len(command_history) + 1 > max_history
                         THEN max_history ELSE Len(command_history) + 1
                    /\ UNCHANGED <<sessionVars, procVars, ptySessVars, filterVars,
                                   in_editor_mode, running>>
               /\ (pc' = "idle") => command_history' = command_history
       /\ (pc = "dispatch") =>
            /\ Last(command_history).command = command
            /\ (command_history' # command_history
                    => Classify(command).kind = "history_clear")
       /\ (pc = "idle" /\ pc' = "idle") => command_history' = command_history]_vars

\* a command that failed to start is still the newest entry
C8_Witness ==
    /\ pc = "idle"
    /\ Len(output_lines) > 1
    /\ Last(output_lines).tag = "spawn_failed"
    /\ output_lines[Len(output_lines) - 1].tag = "echo"
    /\ Len(command_history) > 0
    /\ Last(command_history).command = output_lines[Len(output_lines) - 1].text

(***************************************************************************)
(* Properties of the PTY line filter.                                      *)
(***************************************************************************)
\* position of the last line that announced an interactive session
LastHint ==
    CHOOSE i \in 0..Len(output_lines) :
        /\ i = 0 \/ output_lines[i].tag = "pty_hint"
        /\ \A j \in (i + 1)..Len(output_lines) : output_lines[j].tag # "pty_hint"

\* the lines of process text logged since the session began
SessionText ==
    SelectSeq(SubSeq(output_lines, LastHint + 1, Len(output_lines)),
              LAMBDA l : l.tag = "text")

\* C9: from the buffer "hello" with the cursor at 5, ESC[2D puts the cursor
\* at 3, ESC[K cuts the buffer to "hel", and "hi" with a newline writes from
\* 3 giving "helhi", which is exactly the line added to the output log.
C9_WorkedExample ==
    pty_thread = "reading" =>
        /\ pty_fed = HelloText =>
             current_line = HelloText /\ cursor_pos = 5 /\ SessionText = <<>>
        /\ pty_fed = SubSeq(HelloStream, 1, 9) =>
             current_line = HelloText /\ cursor_pos = 3 /\ SessionText = <<>>
        /\ pty_fed = SubSeq(HelloStream, 1, 12) =>
             current_line = <<"h", "e", "l">> /\ cursor_pos = 3 /\ SessionText = <<>>
        /\ pty_fed = SubSeq(HelloStream, 1, 14) =>
             current_line = <<"h", "e", "l", "h", "i">> /\ SessionText = <<>>
        /\ pty_fed = HelloStream =>
             SessionText = <<Text(<<"h", "e", "l", "h", "i">>)>>

\* the whole example has been read and its line logged
C9_Witness ==
    /\ pty_thread = "reading"
    /\ pty_fed = HelloStream
    /\ Last(output_lines) = Text(<<"h", "e", "l", "h", "i">>)

\* C10: ESC[31m, ERROR, ESC[0m and a newline fed to the filter from an
\* empty buffer add exactly one line, "ERROR", to the output log.
C10_ColourStripped ==
    pty_thread = "reading" =>
        /\ pty_fed = SubSeq(ColourStream, 1, 14) =>
             current_line = ErrorText /\ SessionText = <<>>
        /\ pty_fed = ColourStream =>
             SessionText = <<Text(ErrorText)>> /\ current_line = <<>>

\* the coloured line has been read and logged
C10_Witness ==
    /\ pty_thread = "reading"
    /\ pty_fed = ColourStream
    /\ Last(output_lines) = Text(ErrorText)

(***************************************************************************)
(* Escape sequences the filter has no case for.                            *)
(***************************************************************************)

\* C11: a sequence other than cursor-left, cursor-right and erase-to-end
\* (colour, cursor up or down, private mode, window title ended by BEL,
\* keypad mode, character-set selection) is discarded whole: after "a" and
\* the sequence the buffer is "a" with the cursor at 1, and after the "b"
\* and the newline that follow, the line logged is exactly "ab".
C11_OtherSequencesDiscarded ==
    \A sequence \in OtherSequences :
        (pty_thread = "reading" /\ pty_fed \o pty_stream = Bracketed(sequence)) =>
            /\ pty_fed = <<"a">> \o sequence =>
                  /\ current_line = <<"a">>
                  /\ cursor_pos = 1
                  /\ ~in_escape
            /\ pty_fed = Bracketed(sequence) =>
                  SessionText = <<Text(<<"a", "b">>)>>

(***************************************************************************)
(* PTY sessions.                                                           *)
(***************************************************************************)

\* an attempt to start a session: a command line, or start_pty_command
StartAttempt == (\E line \in PtyLines : Submit(line)) \/ StartPtyDirect

\* C12: at most one PTY session is active: an attempt to start one while a
\* session is active (interactive command, export line or start_pty_command
\* itself) is rejected and leaves the process handle, the master descriptor
\* and the reader worker of the active session as they were.
C12_SecondStartRejected ==
    [][(in_pty_mode /\ StartAttempt)
         => UNCHANGED <<in_pty_mode, pty_process, pty_master, pty_thread, procs>>]_vars

\* C14: when cleanup_pty returns the session is fully torn down: in_pty_mode
\* is false, the process handle and the master descriptor are cleared, and
\* the child of the session has been ended.
C14_CleanupLeavesNoSession ==
    [][(\E obeys \in BOOLEAN : PtyCleanupWith(obeys))
         => /\ ~in_pty_mode'
            /\ pty_process' = None
            /\ pty_master' = None
            /\ \A p \in JobPids : procs'[p].status # "running"]_vars

(***************************************************************************)
(* The interrupt key.                                                      *)
(***************************************************************************)

\* the children other than p are as they were
OthersUntouched(p) == \A q \in JobPids : q # p => procs'[q] = procs[q]

Monitored == {p \in DOMAIN monitors : monitors[p] \in {"reading", "vacating", "failing"}}

\* C13: at any moment at most one foreground-monitored process is running
\* and at most one monitor worker exists, also when a further command that
\* is not a background command is submitted while an earlier foreground
\* process is still running.
C13_OneForegroundAtATime ==
    /\ Cardinality(Monitored) <= 1
    /\ Cardinality({p \in Monitored : procs[p].status = "running"}) <= 1

(***************************************************************************)
(* Background commands.                                                    *)
(***************************************************************************)

\* the lines a step appends to the output log
NewLines == SubSeq(output_lines', Len(output_lines) + 1, Len(output_lines'))

\* the children launched in the background: spawned and never monitored
Background == {q \in DOMAIN procs : procs[q].status # "unborn" /\ monitors[q] = "none"}

\* the lines that jobs prints for q
JobEntries(lines, q) ==
    SelectSeq(lines, LAMBDA l : l.tag \in {"job_running", "job_finished"} /\ l.n = q)

\* C17: a command ending in & is spawned and the launch returns without
\* waiting: the child is still running, the foreground slot and the monitor
\* workers are as before, and exactly one confirmation line with the
\* child's PID is logged; a later jobs prints exactly one entry for each
\* such child, with that PID, shown as running while it has not exited; and
\* nothing the child writes is ever logged.
C17_BackgroundLaunch ==
    /\ [][(pc = "dispatch" /\ Classify(command).kind = "background"
           /\ Dispatch /\ procs' # procs)
          => /\ procs'[FreshPid].status = "running"
             /\ OthersUntouched(FreshPid)
             /\ pc' = "idle"
             /\ UNCHANGED <<foreground_process, monitors>>
             /\ running_processes' = Append(running_processes, FreshPid)
             /\ NewLines = <<Line("background_started", FreshPid, <<>>)>>]_vars
    /\ [][(pc = "dispatch" /\ Classify(command).kind = "jobs" /\ Dispatch)
          => \A q \in Background :
                JobEntries(NewLines, q) =
                    <<Line(IF procs[q].status = "running"
                           THEN "job_running" ELSE "job_finished", q, <<>>)>>]_vars
    /\ [](\A q \in Background :
            /\ procs[q].stdout = BackgroundOutput
            /\ \A i \in 1..Len(output_lines) :
                  output_lines[i].tag \in {"text", "stderr"}
                      => \A j \in 1..Len(BackgroundOutput) :
                            output_lines[i].text # BackgroundOutput[j])

\* a background child was confirmed and, still running, listed by jobs
C17_Witness ==
    \E q \in Background :
        /\ procs[q].status = "running"
        /\ foreground_process = None
        /\ \E i, j \in 1..Len(output_lines) :
              /\ i < j
              /\ output_lines[i] = Line("background_started", q, <<>>)
              /\ output_lines[j] = Line("job_running", q, <<>>)

(***************************************************************************)
(* The monitor worker of a foreground command.                             *)
(***************************************************************************)

\* the children launched in the foreground
Foreground == {p \in DOMAIN monitors : monitors[p] # "none"}

\* how many stdout lines of p its worker has forwarded
Forwarded(p) == Len(JobOutput) - Len(procs[p].stdout)

\* how many of the first n lines of the log satisfy Test
CountIn(n, Test(_)) == Cardinality({i \in 1..n : Test(output_lines[i])})

IsOutputLine(l, k) == l = Text(RStrip(JobOutput[k]))
IsExitCodeLine(l) == l.tag = "exit_code"

\* C18: the monitor worker of a foreground command logs the child's stdout
\* lines in the order they were written, logs an exit-code line exactly when
\* the exit status is not zero, and takes the child out of the foreground
\* slot and the process table only after those lines; and on every path,
\* an exception while monitoring included, the child does leave the slot
\* and the table.
C18_MonitorReportsThenVacates ==
    /\ [](/\ \A k \in 1..Len(JobOutput) :
               CountIn(Len(output_lines), LAMBDA l : IsOutputLine(l, k))
                   = Cardinality({p \in Foreground : Forwarded(p) >= k})
          /\ \A n \in 0..Len(output_lines), k \in 1..(Len(JobOutput) - 1) :
               CountIn(n, LAMBDA l : IsOutputLine(l, k + 1))
                   <= CountIn(n, LAMBDA l : IsOutputLine(l, k))
          /\ CountIn(Len(output_lines), IsExitCodeLine)
               = Cardinality({p \in Foreground :
                                 /\ monitors[p] \in {"vacating", "done"}
                                 /\ procs[p].returncode # 0})
          /\ \A p \in Foreground :
               /\ monitors[p] \in {"vacating", "done"}
                    => procs[p].status = "exited" /\ Forwarded(p) = Len(JobOutput)
               /\ (\E i \in 1..Len(running_processes) : running_processes[i] = p)
                    <=> monitors[p] \in {"reading", "vacating", "failing"}
               /\ foreground_process = p
                    => monitors[p] \in {"reading", "vacating", "failing"})
    /\ \A p \in Pids :
          (monitors[p] \in {"reading", "vacating", "failing"}
             /\ (procs[p].status = "exited" \/ monitors[p] # "reading"))
              ~> (monitors[p] \in {"done", "failed"} /\ foreground_process # p)

\* a child that wrote its two lines and ended with status 1 has been
\* reported and has left the slot
C18_Witness ==
    \E p \in Foreground :
        /\ monitors[p] = "done"
        /\ procs[p].returncode = 1
        /\ foreground_process = None
        /\ running_processes = <<>>
        /\ SubSeq(output_lines, Len(output_lines) - 4, Len(output_lines))
             = <<Text(<<"x">>), Text(<<"y">>), Line("stderr", 0, <<"e">>),
                 Line("exit_code", 1, <<>>), Msg("command_completed")>>

(***************************************************************************)
(* Launches that fail.                                                     *)
(***************************************************************************)

LaunchKinds == {"foreground", "background", "pty", "export"}

\* a step of execute_command that was to launch a child and has none
FailedLaunch ==
    /\ pc = "dispatch"
    /\ Classify(command).kind \in LaunchKinds
    /\ Dispatch
    /\ \A p \in DOMAIN procs : procs[p].status = "unborn" => procs'[p].status = "unborn"

\* C19: a launch whose child cannot be spawned, in the foreground, in the
\* background or on a PTY, is not fatal: execute_command returns with no
\* exception, the failure is reported as a line of the output log, the
\* foreground slot, the monitor workers and the process table are as they
\* were, and for a PTY launch in_pty_mode is false and no master descriptor
\* or process handle is held.
C19_FailedLaunchIsReported ==
    [][FailedLaunch =>
         /\ pc' = "idle" /\ ~uncaught' /\ running'
         /\ UNCHANGED <<foreground_process, running_processes, monitors>>
         /\ IF Classify(command).kind \in {"pty", "export"}
            THEN /\ \E i \in 1..Len(NewLines) : NewLines[i] = Msg("pty_start_failed")
                 /\ ~in_pty_mode' /\ pty_master' = None /\ pty_process' = None
            ELSE /\ NewLines = <<Msg("spawn_failed")>>
                 /\ UNCHANGED <<procs, ptySessVars>>]_vars

\* a foreground launch and a PTY launch have both failed, and the shell is
\* ready for the next command
C19_Witness ==
    /\ pc = "idle" /\ running /\ ~uncaught
    /\ \E i, j \in 1..Len(output_lines) :
          /\ output_lines[i] = Msg("spawn_failed")
          /\ output_lines[j] = Msg("pty_start_failed")
    /\ \A p \in DOMAIN procs : procs[p].status = "unborn"

(***************************************************************************)
(* The output log.                                                         *)
(***************************************************************************)

\* C20: the output log never holds more than 500 lines; an append to a
\* full log evicts exactly the oldest lines, as many as are appended, and
\* the lines that stay keep their order, whichever thread appends.
C20_LogKeepsNewest ==
    /\ [](Len(output_lines) <= 500)
    /\ [][\A b \in BatchSizes :
            AddOutput(b) =>
                LET all == output_lines \o Batch(b)
                    kept == Len(output_lines')
                IN /\ kept = Min(Len(all), 500)
                   /\ \A i \in 1..kept :
                         output_lines'[i] = all[Len(all) - kept + i]]_vars

\* a full log from which the welcome lines and the first numbered lines
\* have been evicted
C20_Witness ==
    /\ Len(output_lines) = 500
    /\ output_lines[1].tag = "numbered"
    /\ output_lines[1].n > 1
    /\ output_lines[500].n = output_lines[1].n + 499

(***************************************************************************)
(* The environment probe, sourcing and user switching.                     *)
(***************************************************************************)

\* the probe failed or its trailer is malformed: it could not be run, it
\* exited nonzero, it wrote no newline, or its first line lacks the sentinel
ProbeFailed(p) ==
    \/ ~p.ran
    \/ p.returncode # 0
    \/ IndexOf(p.out, NL) = 0
    \/ p.out[1] # Sentinel

\* a step of source_file that runs the probe shell with result p
Probes(p) ==
    /\ pc = "dispatch" /\ Classify(command).kind = "source"
    /\ probes_run' = probes_run + 1
    /\ RouteOn(PtyStreams, StdoutChoices, {p}, {TRUE})

ReportsSourced == \E i \in 1..Len(NewLines) : NewLines[i] = Msg("sourced")

\* C21: when the probe cannot be run, exits nonzero or writes a malformed
\* trailer (no newline, or a first line without the sentinel),
\* apply_shell_environment returns failure and the tracked directory, the
\* process directory, the environment table and the active-environment
\* fields are as before.
C21_FailedProbeAppliesNothing ==
    [][\A p \in ProbeResults :
          (ProbeFailed(p) /\ Probes(p)) => (~ReportsSourced /\ EnvNow' = EnvNow)]_vars

\* source_file on a path at which no file exists
SourcesMissingFile ==
    /\ pc = "dispatch" /\ Classify(command).kind = "source"
    /\ RouteOn(PtyStreams, StdoutChoices, ProbeResults, {FALSE})

\* C22: sourcing a path that does not exist, as `source <path>` or as
\* `. <path>`, appends the file-not-found line and nothing else, runs no
\* probe shell, and leaves the working directory and every environment
\* variable as they were.
C22_MissingFileIsOnlyReported ==
    [][SourcesMissingFile =>
          /\ NewLines = <<Msg("source_file_not_found")>>
          /\ probes_run' = probes_run
          /\ UNCHANGED <<sessionVars, histVars, procVars, ptySessVars>>]_vars

\* both forms have been refused for a missing file, and nothing was probed
C22_Witness ==
    /\ pc = "idle" /\ probes_run = 0 /\ environ = BaseEnviron /\ cwd = Home
    /\ Len(output_lines) >= 4
    /\ output_lines[Len(output_lines)] = Msg("source_file_not_found")
    /\ output_lines[Len(output_lines) - 1] = Line("echo", 0, DotLine)
    /\ output_lines[Len(output_lines) - 2] = Msg("source_file_not_found")
    /\ output_lines[Len(output_lines) - 3] = Line("echo", 0, SourceLine)

\* the user a root or user line in dispatch asks for
RequestedUser ==
    IF Classify(command).kind = "root" THEN W_root
    ELSE UserOperand(ShlexSplit(command).parts)

\* a line in dispatch that reaches switch_user
CallsSwitchUser ==
    /\ pc = "dispatch"
    /\ \/ Classify(command).kind = "root"
       \/ /\ Classify(command).kind = "user"
          /\ ShlexSplit(command).ok
          /\ Len(ShlexSplit(command).parts) > 1

\* the causes of a failed switch: no user is named, or the elevation tool
\* is needed and is missing, cannot run its check, or refuses
SwitchFails(target, euid_root, sudo, check) ==
    \/ Len(Strip(target)) = 0
    \/ /\ Strip(target) \notin {RealUser, active_user}
       /\ ~(euid_root /\ Strip(target) = W_root)
       /\ (~sudo \/ check \in {"raises", "denied"})

SwitchErrors == {Msg("user_missing_name"), Msg("sudo_unavailable"),
                 Msg("user_check_error"), Msg("user_denied")}

\* C25: a user switch that fails (empty target, elevation tool unavailable,
\* its non-interactive check cannot be run or returns nonzero) returns
\* failure, logs one line naming the cause, and leaves the active user, the
\* working directory and everything else but the log unchanged.
C25_FailedSwitchOnlyLogs ==
    [][CallsSwitchUser =>
          LET target == RequestedUser
          IN \A euid_root \in BOOLEAN, sudo \in BOOLEAN, check \in CheckOutcomes,
                home \in HomeStates :
                (/\ SwitchFails(target, euid_root, sudo, check)
                 /\ SwitchUser(target, euid_root, sudo, check, home))
                => /\ ~switch_user(target, euid_root, sudo, check, home).ok
                   /\ Len(NewLines) = 1 /\ NewLines[1] \in SwitchErrors
                   /\ UNCHANGED <<sessionVars, histVars, procVars, ptySessVars,
                                  in_editor_mode, running>>]_vars

\* a switch to a user the tool refuses and a switch to no user have both
\* been reported, and the session is the first user's, at home
C25_Witness ==
    /\ pc = "idle" /\ active_user = RealUser /\ cwd = Home
    /\ \E i, j \in 1..Len(output_lines) :
          /\ output_lines[i] = Msg("user_denied")
          /\ output_lines[j] = Msg("user_missing_name")

(***************************************************************************)
(* Lines typed during an editor or a PTY session.                          *)
(***************************************************************************)

\* a non-blank line of GateLines is submitted
Typed(line) == Len(Strip(line)) > 0 /\ Submit(line)

\* C23: while an editor session is open, every non-empty line submitted is
\* answered with the guidance message and has no other effect: no history
\* entry, no built-in action, no process, no change of session, PTY or
\* environment state.
C23_EditorRejectsEveryLine ==
    [][\A line \in GateLines :
          (in_editor_mode /\ Typed(line)) =>
              /\ NewLines = <<Msg("finish_editor_first")>>
              /\ UNCHANGED <<histVars, routerVars, sessionVars, procVars,
                             ptySessVars, filterVars>>]_vars

\* three lines have been refused in an editor session that is still open,
\* and the newest history entry is still the edit line
C23_Witness ==
    /\ in_editor_mode /\ running /\ cwd = Home /\ ~in_pty_mode
    /\ Last(command_history).command = EditLine
    /\ Len(output_lines) >= 3
    /\ \A i \in (Len(output_lines) - 2)..Len(output_lines) :
          output_lines[i] = Msg("finish_editor_first")

\* C24: while a PTY session is open and no editor session is, every
\* non-empty line submitted is written to the PTY verbatim with a newline
\* after it, and is not parsed: quit, cd, clear and !1 have no effect on the
\* shell, the history gains no entry, nothing is logged, no process starts.
C24_PtyTakesEveryLine ==
    [][\A line \in GateLines :
          (in_pty_mode /\ ~in_editor_mode /\ Typed(line)) =>
              /\ pty_written' = Append(pty_written, Append(line, NL))
              /\ UNCHANGED <<histVars, output_lines, routerVars, sessionVars,
                             procVars, in_pty_mode, pty_process, pty_master,
                             pty_thread, pty_cleanups, filterVars>>]_vars

\* quit has been written to the child of a session that is still open; the
\* shell runs on and the history holds the sh line alone
C24_Witness ==
    /\ in_pty_mode /\ ~in_editor_mode /\ running /\ pty_master # None
    /\ Len(command_history) = 1 /\ command_history[1].command = W_sh
    /\ pty_written = <<Append(W_quit, NL)>>

(***************************************************************************)
(* Routing.                                                                *)
(***************************************************************************)

\* the names of the built-ins
BuiltinNames == {W_help, W_clear, W_history, W_pwd, W_jobs, <<"c", "d">>, W_quit,
                 W_user, W_root, W_deactivate, <<"v", "e", "n", "v">>,
                 <<"c", "o", "n", "d", "a">>, W_launch, W_edit}

\* the first words of the environment forms
EnvironmentWords == {<<"s", "o", "u", "r", "c", "e">>, <<".">>,
                     <<"e", "x", "p", "o", "r", "t">>}

FirstWord(cmd) == SplitWords(Strip(cmd))[1]

\* execute_command handles the command it has resolved and echoed
Routes == pc = "dispatch" /\ pc' = "idle"

\* the step starts an interactive session for the whole line, or reports
\* that it could not
StartsPtySession ==
    /\ UNCHANGED <<foreground_process, running_processes, monitors>>
    /\ \/ /\ FreshPid # None
          /\ in_pty_mode' /\ pty_process' = FreshPid
          /\ procs'[FreshPid].status = "running"
          /\ procs'[FreshPid].args = command
       \/ /\ ~in_pty_mode' /\ pty_process' = None
          /\ NewLines = <<Msg("pty_start_failed"), Msg("exited_interactive")>>

\* the step starts a background child for the line without its "&", or
\* reports that it could not
StartsBackground ==
    /\ UNCHANGED <<foreground_process, monitors, ptySessVars>>
    /\ \/ /\ FreshPid # None
          /\ running_processes' = Append(running_processes, FreshPid)
          /\ procs'[FreshPid].status = "running"
          /\ LET trimmed == Strip(command)
             IN procs'[FreshPid].args = Strip(SubSeq(trimmed, 1, Len(trimmed) - 1))
          /\ NewLines = <<Line("background_started", FreshPid, <<>>)>>
       \/ /\ UNCHANGED <<running_processes, procs>>
          /\ NewLines = <<Msg("spawn_failed")>>

\* the step starts a monitored foreground child for the line, or reports
\* that it could not
StartsForeground ==
    /\ UNCHANGED ptySessVars
    /\ \/ /\ FreshPid # None
          /\ running_processes' = Append(running_processes, FreshPid)
          /\ foreground_process' = FreshPid
          /\ monitors'[FreshPid] = "reading"
          /\ procs'[FreshPid].status = "running"
          /\ procs'[FreshPid].args = command
          /\ NewLines = <<>>
       \/ /\ UNCHANGED <<running_processes, procs, foreground_process, monitors>>
          /\ NewLines = <<Msg("spawn_failed")>>

\* C26: a line is handled as a built-in only when its command word, in
\* lower case, is a built-in name: a line whose first word only begins with
\* one (historyx, editor f, users, useradd bob) is launched as a command.
C26_OnlyExactNamesAreBuiltins ==
    [][(/\ Routes
        /\ Lower(FirstWord(command)) \notin BuiltinNames \cup EnvironmentWords)
       => /\ StartsPtySession \/ StartsBackground \/ StartsForeground
          /\ UNCHANGED <<histVars, sessionVars, in_editor_mode, running>>]_vars

\* C27: a line that reaches the launch stage starts a PTY session when its
\* first word is on the interactive allow-list, even if it ends in "&";
\* otherwise a background child, started without the "&", when the trimmed
\* line ends in "&"; otherwise a monitored foreground child.  It never
\* starts more than one of the three.
C27_LaunchModeByPriority ==
    [][(Routes /\ Classify(command).kind \in {"pty", "background", "foreground"})
       => /\ IF FirstWord(command) \in interactive_commands
             THEN StartsPtySession
             ELSE IF Last(Strip(command)) = "&"
             THEN StartsBackground
             ELSE StartsForeground
          /\ Cardinality({q \in JobPids : procs'[q] # procs[q]}) <= 1
          /\ UNCHANGED <<histVars, sessionVars, in_editor_mode, running>>]_vars

\* "sh &" runs in a PTY session and " ls & " runs in background as "ls";
\* the foreground slot is empty
C27_Witness ==
    /\ pc = "idle" /\ in_pty_mode /\ pty_process # None
    /\ procs[pty_process].args = W_sh \o <<SP, "&">>
    /\ foreground_process = None
    /\ \E q \in JobPids :
          /\ q # pty_process
          /\ running_processes = <<q>>
          /\ procs[q].status = "running" /\ procs[q].args = W_ls

(***************************************************************************)
(* The line filter: cursor, newline, carriage return.                      *)
(***************************************************************************)

\* C28: whatever is fed to the filter, after every character the cursor
\* offset is at least 0 and at most the length of the line buffer.
C28_CursorWithinBuffer ==
    pty_thread = "reading" => (0 <= cursor_pos /\ cursor_pos <= Len(current_line))

\* the reader takes the single character c from the child
FeedsOne(c) ==
    /\ pty_thread = "reading"
    /\ Len(pty_stream) > 0 /\ Head(pty_stream) = c
    /\ PtyRead(1)

\* C29: a newline outside an escape sequence appends the buffer, stripped
\* of control codes, as one line when that text is not blank and appends
\* nothing when it is; either way the buffer is then empty and the cursor 0.
C29_NewlineCommitsBuffer ==
    [][(~in_escape /\ FeedsOne(NL)) =>
          LET clean_line == strip_ansi_codes(current_line)
          IN /\ NewLines = IF IsBlank(clean_line) THEN <<>>
                           ELSE <<Text(clean_line)>>
             /\ current_line' = <<>>
             /\ cursor_pos' = 0]_vars

\* a line was committed by one newline and nothing by the next, which found
\* the buffer empty: "a", newline, newline leave the one line "a"
C29_Witness ==
    /\ pty_thread = "reading"
    /\ pty_fed = <<"a", NL, NL>>
    /\ SessionText = <<Text(<<"a">>)>>
    /\ current_line = <<>> /\ cursor_pos = 0

\* C30: a carriage return outside an escape sequence sets the cursor to 0,
\* appends nothing and leaves the buffer as it is; no character but a
\* newline appends a line, and the newline appends at most the one line the
\* buffer holds when it arrives.
C30_CarriageReturnOnlyMovesCursor ==
    [][/\ (~in_escape /\ FeedsOne(CR)) =>
              /\ cursor_pos' = 0
              /\ current_line' = current_line
              /\ NewLines = <<>>
       /\ \A item \in StreamItems : \A i \in 1..Len(item) :
              FeedsOne(item[i]) =>
                 IF item[i] = NL
                 THEN /\ Len(NewLines) <= 1
                      /\ \A j \in 1..Len(NewLines) :
                            NewLines[j].text = strip_ansi_codes(current_line)
                 ELSE NewLines = <<>>]_vars

\* "a", carriage return, "b": the "b" has overwritten the "a" from offset 0
\* and nothing has been logged
C30_Witness ==
    /\ pty_thread = "reading"
    /\ pty_fed = <<"a", CR, "b">>
    /\ current_line = <<"b">> /\ cursor_pos = 1
    /\ SessionText = <<>>

\* C31: a printable character outside an escape sequence replaces the
\* character at the cursor when the cursor is inside the buffer, the length
\* staying as it was and nothing moving right, and is appended when the
\* cursor is at the end; either way the cursor advances by one.
C31_PrintableOverwritesOrAppends ==
    [][\A char \in {"a", "b", SP} :
          (/\ ~in_escape
           /\ 0 <= cursor_pos /\ cursor_pos <= Len(current_line)
           /\ FeedsOne(char))
          => /\ current_line' = IF cursor_pos < Len(current_line)
                                THEN [current_line EXCEPT ![cursor_pos + 1] = char]
                                ELSE Append(current_line, char)
             /\ cursor_pos' = cursor_pos + 1
             /\ NewLines = <<>>]_vars

\* "a", a cursor-left and "b": the "b" has replaced the "a", the buffer is
\* one character long and the cursor is behind it
C31_Witness ==
    /\ pty_thread = "reading"
    /\ pty_fed = <<"a">> \o CursorLeft \o <<"b">>
    /\ current_line = <<"b">> /\ cursor_pos = 1

\* C32: after a probe that exits with 0 and writes a well-formed trailer,
\* the environment table is exactly the table the probe shell dumped (its
\* values set, every variable it does not hold removed), the tracked
\* directory is the directory written after the sentinel, and the caller
\* is told of the success.
C32_SuccessfulProbeReplacesEnvironment ==
    [][\A end \in ProbeEnds :
          Probes(ProbeResult(TRUE, 0, Trailer(end))) =>
              /\ environ' = end.table
              /\ cwd' = end.dir
              /\ ReportsSourced]_vars

\* a first probe ended in a virtual environment and a second one without:
\* the variable of the first is gone and the shell is back at home
C32_Witness ==
    /\ pc = "idle" /\ probes_run = 2
    /\ active_env_source # NoText
    /\ environ = PlainTable /\ cwd = Home
    /\ Cardinality({i \in 1..Len(output_lines) : output_lines[i] = Msg("sourced")}) = 2

(***************************************************************************)
(* What the worker threads write.                                          *)
(***************************************************************************)

\* a step of a worker thread: a monitor_process worker, or the
\* read_pty_output worker in its loop or in cleanup_pty
WorkerStep ==
    \/ \E p \in JobPids : Monitor(p)
    \/ \E k \in 1..MaxChunk : PtyRead(k)
    \/ PtyLoopExit
    \/ PtyCleanup

\* C33: the worker threads write only the output log and the process table
\* (the foreground slot included): no step of a worker writes the session
\* flag, the PTY process handle, the master descriptor or the partial line.
C33_WorkersWriteOnlyLogAndTable ==
    [][WorkerStep => UNCHANGED <<in_pty_mode, pty_process, pty_master,
                                 pty_partial_line>>]_vars

\* C34: the teardown of an ended session leaves a later session alone: when
\* the rest of cleanup_pty runs after a new session was started, the flag,
\* the handle and the master of the new session stay set and its child is
\* not terminated.
C34_CleanupSparesLaterSession ==
    [][\A obeys \in BOOLEAN :
          (in_pty_mode /\ pty_process # None /\ PtyCleanupWith(obeys))
          => /\ UNCHANGED <<in_pty_mode, pty_process, pty_master>>
             /\ procs'[pty_process] = procs[pty_process]]_vars

\* the pids of a process table
InTable(table) == {table[i] : i \in 1..Len(table)}

\* C35: a finishing foreground monitor vacates the slot only if the slot
\* still refers to its own process, and takes only its own process from
\* the table: the end of an earlier foreground process never clears the
\* slot of a later one.
C35_MonitorVacatesOnlyItsOwn ==
    [][\A p \in JobPids :
          MonitorVacate(p) =>
             /\ foreground_process # p => foreground_process' = foreground_process
             /\ foreground_process = p => foreground_process' = None
             /\ InTable(running_processes') = InTable(running_processes) \ {p}]_vars

\* the monitor of an earlier foreground process has finished while the slot
\* holds a later one that is still running
C35_Witness ==
    \E p, q \in JobPids :
       /\ p # q
       /\ monitors[p] = "done"
       /\ foreground_process = q
       /\ procs[q].status = "running" /\ monitors[q] = "reading"
       /\ q \in InTable(running_processes)

\* C37: jobs reports exactly the processes launched in the background: each
\* of them has its entry, a process that a foreground monitor watches has
\* none, and the count line gives the number of background processes.
C37_JobsListsOnlyBackground ==
    [][(pc = "dispatch" /\ Classify(command).kind = "jobs" /\ Dispatch)
          => /\ \A q \in JobPids :
                   JobEntries(NewLines, q) # <<>> <=> q \in Background
             /\ \A i \in 1..Len(NewLines) :
                   NewLines[i].tag = "jobs_count"
                       => NewLines[i].n = Cardinality(Background)]_vars

\* C36: the foreground monitor never deadlocks with its child: whatever
\* the child writes to stdout and to stderr, the child exits, the monitor
\* worker ends and the child has left the foreground slot and the table.
C36_MonitorNeverDeadlocks ==
    \A p \in JobPids :
       (monitors[p] = "reading")
          ~> /\ procs[p].status = "exited"
             /\ monitors[p] = "done"
             /\ foreground_process # p
             /\ p \notin InTable(running_processes)

\* C38: whenever an operation has returned, the directory the shell tracks
\* is the directory the process is in: after the start, cd, a probe that
\* succeeded or failed and a user switch, also when the change into the
\* target directory failed.
C38_TrackedDirectoryIsActual == pc = "idle" => cwd = process_cwd

(***************************************************************************)
(* The history store: loading and sequential recall.                       *)
(***************************************************************************)

\* a document with an integer next_index and a list of entries that each
\* have an integer index and a string command
WellFormed(doc) ==
    /\ doc.kind = "dict"
    /\ doc.next_index.t = "int"
    /\ doc.entries.t = "list"
    /\ \A i \in 1..Len(doc.entries.items) :
          /\ doc.entries.items[i].t = "dict"
          /\ doc.entries.items[i].index.t = "int"
          /\ doc.entries.items[i].command.t = "str"

\* C39: after load_history of a well-formed document, also one whose
\* next_index is not greater than one of its stored indices, the counter
\* history_next_index is greater than the index of every loaded entry.
C39_LoadedCounterAboveLoaded ==
    [][(WellFormed(history_doc) /\ history_file /\ \E cap \in Caps : Restart(cap))
         => \A i \in 1..Len(command_history') :
               command_history'[i].index < history_next_index']_vars

\* C40: the recall cursor stays within -1 .. number of entries and is -1
\* only while the history is empty; get_history_prev and get_history_next
\* never subscript outside the entries; prev at the oldest entry stays there
\* and returns it, next at or past the newest returns the empty string and
\* leaves the cursor at the number of entries; in between each returns the
\* neighbouring entry.
C40_RecallCursorWithinHistory ==
    LET n == Len(command_history)
        prev == get_history_prev(HNow)
        next == get_history_next(HNow)
        prev_value == get_history_prev_value(HNow)
        next_value == get_history_next_value(HNow)
    IN /\ -1 <= history_index /\ history_index <= n
       /\ history_index = -1 => n = 0
       /\ ~prev_value.raised /\ ~next_value.raised
       /\ n = 0 => /\ prev = HNow /\ prev_value.value = <<>>
                   /\ next = HNow /\ next_value.value = <<>>
       /\ (n > 0 /\ history_index = 0)
            => /\ prev.history_index = 0
               /\ prev_value.value = command_history[1].command
       /\ (n > 0 /\ history_index > 0)
            => /\ prev.history_index = history_index - 1
               /\ prev_value.value = command_history[history_index].command
       /\ (n > 0 /\ history_index < n - 1)
            => /\ next.history_index = history_index + 1
               /\ next_value.value = command_history[history_index + 2].command
       /\ (n > 0 /\ history_index >= n - 1)
            => /\ next.history_index = n
               /\ next_value.value = <<>>

\* two entries with the cursor stepped back to the oldest of them
C40_Witness ==
    /\ ~uncaught
    /\ Len(command_history) = 2
    /\ history_index = 0

====
